---- MODULE Spec2Model ----
(***************************************************************************)
(* Kedastral: the capacity planner (pkg/capacity), the forecaster control  *)
(* loop (cmd/forecaster), the snapshot store (pkg/storage), the snapshot   *)
(* HTTP endpoint and client, and the external scaler.                      *)
(*                                                                         *)
(* float64 quantities are modelled exactly.  A float64 parameter is the    *)
(* pair <<n, d>> standing for n/d with d > 0; forecast values and          *)
(* TargetPerPod are whole numbers.  Every value the model enumerates is    *)
(* dyadic (d a power of two) or is reached through a product that is       *)
(* exact in float64 for the enumerated range, so math.Ceil / math.Floor /  *)
(* math.Round of the float64 expression equal the exact results computed   *)
(* here.                                                                   *)
(***************************************************************************)
EXTENDS Integers, Sequences, FiniteSets, TLC

VARIABLES
    plCall,      \* the arguments of the ToReplicas invocation
    plDone,      \* whether ToReplicas has returned
    plResult,    \* the slice ToReplicas returned
    plPanic,     \* the call ended in a run-time panic instead of returning
    plSteps,     \* per step of the call: the need and the prevOut it worked from
    plOther,     \* what an invocation on other arguments, made in between, returned
    plAgain,     \* a second invocation on the arguments of plCall, and when it ran
    \* ---- forecaster process ----
    cfg,              \* configuration handed to New: policy and model kind
    now,              \* wall clock, in half seconds
    nextFire,         \* when the interval ticker fires next
    tickerC,          \* ticker.C holds an undelivered tick (channel of capacity 1)
    cancelled,        \* the loop context is cancelled
    runPc,            \* position of Run
    tickPc,           \* position of the Tick in progress ("idle" when none)
    tickValues,       \* Tick's local forecast.Values
    tickDesired,      \* Tick's local desiredReplicas
    tickErr,          \* what the last Tick returned ("running" while it runs)
    prevTickErr,      \* what the Tick before the last one returned
    currentReplicas,  \* Forecaster.currentReplicas
    trained,          \* the ARIMA model's trained flag
    snapshots,        \* the store: workload -> latest Snapshot
    tickTrace,        \* the stages the Tick in progress has invoked, in order
    ticksInFlight,    \* Tick invocations that have not returned
    snapAtTickStart,      \* snapshots[Workload] when the last Tick was entered
    replicasAtTickStart,  \* currentReplicas when the last Tick was entered
    \* ---- scaler process ----
    metricsResp       \* the last GetMetrics response, with the case it answered

plannerVars == <<plCall, plDone, plResult, plPanic, plSteps, plOther, plAgain>>

loopVars == <<cfg, now, nextFire, tickerC, cancelled, runPc, tickPc, tickValues,
              tickDesired, tickErr, prevTickErr, currentReplicas, trained, snapshots, tickTrace,
              ticksInFlight, snapAtTickStart, replicasAtTickStart>>

scalerVars == <<metricsResp>>

\* The in-memory store seen by concurrent callers (its map is snapshots, its
\* clock is now).
VARIABLES
    mu,               \* the store's RWMutex: the writer and the readers holding it
    stPc,             \* where each caller of the store is in its call
    stArg,            \* the argument of each caller's call
    stSeen,           \* per reader: what was stored when GetLatest was called,
                      \* and the puts that overlapped the call
    stResult,         \* per reader: what the last GetLatest returned
    lastPut,          \* per workload: argument of the last successful Put
    evicted,          \* per workload: the cleanup removed the entry
    stCalls,          \* how many Put and GetLatest calls have been made
    overwritten,      \* per workload: a Put replaced an earlier entry
    stopped,          \* Stop has been called: the cleanup goroutine is told to end
    stopCalls,        \* how many times Stop has been called
    stopResult        \* how the last Stop call ended ("none" before any)

stopVars == <<stopped, stopCalls, stopResult>>

storeVars == <<mu, stPc, stArg, stSeen, stResult, lastPut, evicted, stCalls, overwritten,
               stopVars>>

\* What the store specification leaves alone of the forecaster.
loopVarsNotStore == <<cfg, nextFire, tickerC, cancelled, runPc, tickPc, tickValues,
                      tickDesired, tickErr, prevTickErr, currentReplicas, trained,
                      tickTrace, ticksInFlight, snapAtTickStart, replicasAtTickStart>>

\* The forecaster's HTTP endpoint and the scaler's requests under examination.
VARIABLES
    httpResp,         \* the last GET /forecast/current request and its response
    metricsReq,       \* what the GetMetrics call behind metricsResp was given
    activeResp        \* the last IsActive call and its result

\* main of the forecaster process and its HTTP server.
VARIABLES
    mainPc,           \* position of main: "running", "stopping" (in Stop), "exited"
    shutdownAt,       \* when main began to shut down (-1 before)
    handlersInFlight, \* HTTP handlers that have not returned
    handlersDone      \* HTTP handlers that have returned

mainVars == <<mainPc, shutdownAt, handlersInFlight, handlersDone>>

serviceVars == <<httpResp, metricsReq, activeResp, mainVars>>

\* The ARIMA model object seen by concurrent callers of Train and Predict
\* (its trained flag is the variable trained).
VARIABLES
    arMu,             \* the model's RWMutex: the writer and the readers holding it
    arFitted,         \* the fitted state: which Train produced its AR part and its MA part
    arPc,             \* where each caller of the model is in its call
    arTmp,            \* each caller's local values
    arResult,         \* per caller: what its last call returned
    arCalls,          \* how many Train and Predict calls have been made
    arTrainedOk       \* how many Train calls have returned without error

\* One call of BaselineModel.Predict.
VARIABLES
    bpCall,           \* the model's fields and the features of the call
    bpDone,           \* the call has returned
    bpResult          \* the Forecast and the error it returned

baselineVars == <<bpCall, bpDone, bpResult>>

\* One call of PrometheusAdapter.Collect and one of Builder.BuildFeatures.
VARIABLES
    adCall,           \* the reply of Prometheus to the range query
    adDone,           \* Collect has returned
    adResult,         \* the DataFrame and the error it returned
    bfCall,           \* the DataFrame handed to BuildFeatures
    bfDone,           \* BuildFeatures has returned
    bfResult          \* the FeatureFrame and the error it returned

pipelineVars == <<adCall, adDone, adResult, bfCall, bfDone, bfResult>>

modelVars == <<arMu, arFitted, arPc, arTmp, arResult, arCalls, arTrainedOk, baselineVars,
               pipelineVars>>

vars == <<plannerVars, loopVars, scalerVars, storeVars, serviceVars, modelVars>>

----------------------------------------------------------------------------
\* Bounds of the planner inputs.

MaxLen == 3

MaxOf(a, b) == IF a >= b THEN a ELSE b
MinOf(a, b) == IF a <= b THEN a ELSE b

\* math.Ceil(n/d) and math.Floor(n/d) for d > 0 (\div rounds towards -infinity).
CeilDiv(n, d) == -((-n) \div d)
FloorDiv(n, d) == n \div d

RECURSIVE SeqsUpTo(_, _)
SeqsUpTo(S, n) ==
    IF n = 0 THEN {<<>>}
    ELSE LET shorter == SeqsUpTo(S, n - 1)
         IN  shorter \cup {Append(s, x) : s \in {t \in shorter : Len(t) = n - 1}, x \in S}

PrevValues == {-1, 2, 7}
ForecastValues == {-1, 3, 8}
StepSecValues == {0, 30}

Policies ==
    [ TargetPerPod          : {0, 2},
      Headroom              : {<<1, 2>>, <<3, 2>>},
      LeadTimeSeconds       : {-60, 90},
      MinReplicas           : {-1, 1, 3},
      MaxReplicas           : {0, 2, 5},
      UpMaxFactorPerStep    : {<<0, 1>>, <<1, 2>>, <<3, 2>>},
      DownMaxPercentPerStep : {-5, 25, 120},
      PrewarmWindowSteps    : {-1, 1},
      RoundingMode          : {"ceil", "round", "floor"} ]

----------------------------------------------------------------------------
\* pkg/capacity: ToReplicas and its helpers.

\* The "sanitize policy" block of ToReplicas.
sanitizePolicy(p) ==
    LET minR == IF p.MinReplicas < 0 THEN 0 ELSE p.MinReplicas
    IN  [ TargetPerPod          |-> IF p.TargetPerPod <= 0 THEN 1 ELSE p.TargetPerPod,
          Headroom              |-> IF p.Headroom[1] < p.Headroom[2] THEN <<1, 1>> ELSE p.Headroom,
          LeadTimeSeconds       |-> p.LeadTimeSeconds,
          MinReplicas           |-> minR,
          MaxReplicas           |-> IF p.MaxReplicas > 0 /\ p.MaxReplicas < minR
                                    THEN minR ELSE p.MaxReplicas,
          UpMaxFactorPerStep    |-> IF p.UpMaxFactorPerStep[1] <= 0 THEN <<2, 1>>
                                    ELSE p.UpMaxFactorPerStep,
          DownMaxPercentPerStep |-> IF p.DownMaxPercentPerStep < 0 THEN 0
                                    ELSE IF p.DownMaxPercentPerStep > 100 THEN 100
                                    ELSE p.DownMaxPercentPerStep,
          PrewarmWindowSteps    |-> IF p.PrewarmWindowSteps < 0 THEN 0 ELSE p.PrewarmWindowSteps,
          RoundingMode          |-> p.RoundingMode ]

sanitizeStepSec(stepSec) == IF stepSec <= 0 THEN 60 ELSE stepSec

\* x = <<n, d>> with n >= 0, d > 0.  math.Round rounds half away from zero.
roundPods(x, mode) ==
    CASE mode = "floor" -> FloorDiv(x[1], x[2])
      [] mode = "round" -> FloorDiv(2 * x[1] + x[2], 2 * x[2])
      [] OTHER          -> CeilDiv(x[1], x[2])

\* clampBounds without its lower bound.
clampBounds_noLower(x, lo, hi) ==
    IF hi > 0 /\ x > hi THEN hi ELSE x

clampBounds(x, lo, hi) ==
    IF hi > 0 /\ x > hi THEN hi
    ELSE IF x < lo THEN lo
    ELSE x

\* clampChange answers a request above the scale-up limit with the scale-down
\* limit.
clampChange_fallsBack(prev, next, upFactor, downPct) ==
    LET pv == IF prev < 0 THEN 0 ELSE prev
    IN  IF pv = 0
        THEN IF upFactor[1] > 0 /\ next > CeilDiv(upFactor[1], upFactor[2])
             THEN CeilDiv(upFactor[1], upFactor[2])
             ELSE next
        ELSE LET maxUp   == CeilDiv(pv * upFactor[1], upFactor[2])
                 minDown == FloorDiv(pv * (100 - downPct), 100)
             IN  IF next > maxUp THEN minDown
                 ELSE IF next < minDown THEN minDown
                 ELSE next

\* clampChange rounds the scale-up limit down.
clampChange_floorsUp(prev, next, upFactor, downPct) ==
    LET pv == IF prev < 0 THEN 0 ELSE prev
    IN  IF pv = 0
        THEN IF upFactor[1] > 0 /\ next > CeilDiv(upFactor[1], upFactor[2])
             THEN CeilDiv(upFactor[1], upFactor[2])
             ELSE next
        ELSE LET maxUp   == FloorDiv(pv * upFactor[1], upFactor[2])
                 minDown == FloorDiv(pv * (100 - downPct), 100)
             IN  IF next > maxUp THEN maxUp
                 ELSE IF next < minDown THEN minDown
                 ELSE next

\* clampChange lets the requested value through when there is no prior capacity.
clampChange_noColdCap(prev, next, upFactor, downPct) ==
    LET pv == IF prev < 0 THEN 0 ELSE prev
    IN  IF pv = 0
        THEN next
        ELSE LET maxUp   == CeilDiv(pv * upFactor[1], upFactor[2])
                 minDown == FloorDiv(pv * (100 - downPct), 100)
             IN  IF next > maxUp THEN maxUp
                 ELSE IF next < minDown THEN minDown
                 ELSE next

\* clampChange without the scale-down limit.
clampChange_noDown(prev, next, upFactor, downPct) ==
    LET pv == IF prev < 0 THEN 0 ELSE prev
    IN  IF pv = 0
        THEN IF upFactor[1] > 0 /\ next > CeilDiv(upFactor[1], upFactor[2])
             THEN CeilDiv(upFactor[1], upFactor[2])
             ELSE next
        ELSE IF next > CeilDiv(pv * upFactor[1], upFactor[2])
             THEN CeilDiv(pv * upFactor[1], upFactor[2])
             ELSE next

clampChange(prev, next, upFactor, downPct) ==
    LET pv == IF prev < 0 THEN 0 ELSE prev
    IN  IF pv = 0
        THEN IF upFactor[1] > 0 /\ next > CeilDiv(upFactor[1], upFactor[2])
             THEN CeilDiv(upFactor[1], upFactor[2])
             ELSE next
        ELSE LET maxUp   == CeilDiv(pv * upFactor[1], upFactor[2])
                 minDown == FloorDiv(pv * (100 - downPct), 100)
             IN  IF next > maxUp THEN maxUp
                 ELSE IF next < minDown THEN minDown
                 ELSE next

\* adj[i] = max(v, 0) / TargetPerPod * Headroom, as the pair <<n, d>>.
adjOf(v, p) ==
    <<(IF v < 0 THEN 0 ELSE v) * p.Headroom[1], p.TargetPerPod * p.Headroom[2]>>

\* i0 = int(math.Ceil(LeadTimeSeconds / stepSec)), floored at 0.
leadIndex(p, stepSec) ==
    LET i0 == CeilDiv(p.LeadTimeSeconds, stepSec)
    IN  IF i0 < 0 THEN 0 ELSE i0

\* Go's int, with its width scaled down: sums of ints wrap around.
IntBits == 16
MaxInt == 2^(IntBits - 1) - 1
wrapInt(x) == ((x + MaxInt + 1) % (2 * (MaxInt + 1))) - (MaxInt + 1)

\* The window [jStart .. jEnd] of step i (0-based indices, as in the code).
jStartOf(i, i0, n) ==
    LET jStart == wrapInt(i + i0)
    IN  IF jStart >= n THEN n - 1 ELSE jStart
jEndOf(i, i0, n, p) ==
    LET jEnd == wrapInt(jStartOf(i, i0, n) + p.PrewarmWindowSteps)
    IN  IF jEnd >= n THEN n - 1 ELSE jEnd

\* The inner loop of step i reads adj[j] at an index below 0.
indexPanics(i, i0, n, p) ==
    /\ jStartOf(i, i0, n) < 0
    /\ jStartOf(i, i0, n) <= jEndOf(i, i0, n, p)

\* need = max(0.0, adj[jStart..jEnd]); all adj share one denominator.
RECURSIVE needOver(_, _, _, _)
needOver(adj, j, jEnd, need) ==
    IF j > jEnd THEN need
    ELSE needOver(adj, j + 1, jEnd,
                  IF adj[j + 1][1] * need[2] > need[1] * adj[j + 1][2] THEN adj[j + 1] ELSE need)

\* One iteration of the main loop: round, bounds, change clamp, bounds.
planStep(adj, i, i0, prevOut, p) ==
    LET n       == Len(adj)
        need    == needOver(adj, jStartOf(i, i0, n), jEndOf(i, i0, n, p), <<0, 1>>)
        rounded == roundPods(need, p.RoundingMode)
        boundA  == clampBounds(rounded, p.MinReplicas, p.MaxReplicas)
        changed == clampChange(prevOut, boundA, p.UpMaxFactorPerStep, p.DownMaxPercentPerStep)
    IN  clampBounds(changed, p.MinReplicas, p.MaxReplicas)

RECURSIVE planLoop(_, _, _, _, _, _)
planLoop(adj, i, i0, prevOut, p, res) ==
    IF i >= Len(adj) THEN res
    ELSE LET desired == planStep(adj, i, i0, prevOut, p)
         IN  planLoop(adj, i + 1, i0, desired, p, Append(res, desired))

\* ToReplicas seeds its change clamp from the wall clock as well.
ToReplicas_usesClock(prev, forecast, stepSec, policy) ==
    IF Len(forecast) = 0 THEN <<>>
    ELSE LET p   == sanitizePolicy(policy)
             ss  == sanitizeStepSec(stepSec)
             adj == [i \in 1..Len(forecast) |-> adjOf(forecast[i], p)]
         IN  planLoop(adj, 0, leadIndex(p, ss),
                      clampBounds(prev + now, p.MinReplicas, p.MaxReplicas), p, <<>>)

ToReplicas(prev, forecast, stepSec, policy) ==
    IF Len(forecast) = 0 THEN <<>>
    ELSE LET p   == sanitizePolicy(policy)
             ss  == sanitizeStepSec(stepSec)
             adj == [i \in 1..Len(forecast) |-> adjOf(forecast[i], p)]
         IN  planLoop(adj, 0, leadIndex(p, ss),
                      clampBounds(prev, p.MinReplicas, p.MaxReplicas), p, <<>>)

\* ToReplicas does not return: an index expression panics in some step.
ToReplicasPanics(prev, forecast, stepSec, policy) ==
    /\ Len(forecast) > 0
    /\ LET p  == sanitizePolicy(policy)
           ss == sanitizeStepSec(stepSec)
       IN  \E i \in 0..(Len(forecast) - 1) :
              indexPanics(i, leadIndex(p, ss), Len(forecast), p)

\* What each step of a returning call worked from: need, and the prevOut
\* the change clamp was given (the clamped prev, then the previous output).
planSteps(prev, forecast, stepSec, policy, res) ==
    LET p   == sanitizePolicy(policy)
        ss  == sanitizeStepSec(stepSec)
        n   == Len(forecast)
        i0  == leadIndex(p, ss)
        adj == [i \in 1..n |-> adjOf(forecast[i], p)]
    IN  [i \in 1..n |->
            [ need    |-> needOver(adj, jStartOf(i - 1, i0, n), jEndOf(i - 1, i0, n, p), <<0, 1>>),
              prevOut |-> IF i = 1 THEN clampBounds(prev, p.MinReplicas, p.MaxReplicas)
                          ELSE res[i - 1] ]]

----------------------------------------------------------------------------
\* The planner as a state machine: one invocation on arbitrary arguments.

NoCall == [none |-> TRUE]

\* No planner invocation is under study.
PlannerIdle ==
    /\ plCall = NoCall
    /\ plDone = TRUE
    /\ plResult = <<>>
    /\ plPanic = FALSE
    /\ plSteps = <<>>
    /\ plOther = NoCall
    /\ plAgain = NoCall

PlannerInputs ==
    [ prev     : PrevValues,
      forecast : SeqsUpTo(ForecastValues, MaxLen),
      stepSec  : StepSecValues,
      policy   : Policies ]

InitPlanner ==
    /\ plCall \in PlannerInputs
    /\ plDone = FALSE
    /\ plResult = <<>>
    /\ plPanic = FALSE
    /\ plSteps = <<>>
    /\ plOther = NoCall
    /\ plAgain = NoCall

\* One call of ToReplicas: it panics or returns its slice.
CallToReplicas ==
    /\ ~plDone
    /\ plDone' = TRUE
    /\ plPanic' = ToReplicasPanics(plCall.prev, plCall.forecast, plCall.stepSec, plCall.policy)
    /\ IF plPanic'
       THEN /\ plResult' = <<>>
            /\ plSteps' = <<>>
       ELSE /\ plResult' = ToReplicas(plCall.prev, plCall.forecast, plCall.stepSec, plCall.policy)
            /\ plSteps' = planSteps(plCall.prev, plCall.forecast, plCall.stepSec,
                                    plCall.policy, plResult')
    /\ UNCHANGED <<plCall, plOther, plAgain>>

\* Arguments at the ends of the int range.
WidePolicies ==
    [ TargetPerPod          : {2},
      Headroom              : {<<3, 2>>},
      LeadTimeSeconds       : {0, 60, MaxInt - 1},
      MinReplicas           : {0},
      MaxReplicas           : {0, 5},
      UpMaxFactorPerStep    : {<<3, 2>>},
      DownMaxPercentPerStep : {25},
      PrewarmWindowSteps    : {0, 1, MaxInt},
      RoundingMode          : {"ceil"} ]

WideInputs ==
    [ prev     : {2},
      forecast : SeqsUpTo(ForecastValues, MaxLen),
      stepSec  : {1, 30},
      policy   : WidePolicies ]

InitPlannerWide ==
    /\ plCall \in WideInputs
    /\ plDone = FALSE
    /\ plResult = <<>>
    /\ plPanic = FALSE
    /\ plSteps = <<>>
    /\ plOther = NoCall
    /\ plAgain = NoCall

PlannerCalled == plDone /\ plCall # NoCall

\* The sanitised policy fields a planner property speaks of, written out.
EffMin == MaxOf(plCall.policy.MinReplicas, 0)
EffUp ==
    IF plCall.policy.UpMaxFactorPerStep[1] <= 0 THEN <<2, 1>>
    ELSE plCall.policy.UpMaxFactorPerStep
EffDown == MaxOf(0, MinOf(100, plCall.policy.DownMaxPercentPerStep))

\* C1: every element of the ToReplicas output is >= minReplicas and, when
\* maxReplicas > 0, <= max(minReplicas, maxReplicas).
C1_OutputWithinBounds ==
    PlannerCalled =>
        \A i \in 1..Len(plResult) :
            /\ plResult[i] >= EffMin
            /\ plCall.policy.MaxReplicas > 0 =>
                   plResult[i] <= MaxOf(EffMin, plCall.policy.MaxReplicas)

\* A call whose demand is cut by the upper bound and lifted by the lower one.
C1_Witness ==
    /\ PlannerCalled
    /\ plCall.policy.MaxReplicas > EffMin
    /\ EffMin > 0
    /\ \E i, j \in 1..Len(plResult) :
          /\ plResult[i] = plCall.policy.MaxReplicas
          /\ plCall.forecast[i] > plCall.policy.MaxReplicas * 2
          /\ plResult[j] = EffMin
          /\ plCall.forecast[j] < 0

ChangeUpperHolds(i) ==
    plResult[i] <= CeilDiv(plResult[i - 1] * EffUp[1], EffUp[2])
ChangeLowerHolds(i) ==
    plResult[i] >= FloorDiv(plResult[i - 1] * (100 - EffDown), 100)

----------------------------------------------------------------------------
\* cmd/forecaster: configuration, the store contract and the control loop.
\* Time is counted in half seconds, so that the truncation of generatedAt to
\* whole seconds by the snapshot endpoint is visible.

MaxTime == 7

TicksPerSecond == 2
Interval == 2
StaleAfter == 2 * Interval
StepSec == 60
HorizonSec == 120

Workload == "w1"
UnknownWorkload == "unknown-workload"
Workloads == {Workload, UnknownWorkload}
MetricName == "http_rps"

NoSnapshot == [found |-> FALSE]

LoopPolicy(m) ==
    [ TargetPerPod          |-> 1,
      Headroom              |-> <<1, 1>>,
      LeadTimeSeconds       |-> 0,
      MinReplicas           |-> m,
      MaxReplicas           |-> 6,
      UpMaxFactorPerStep    |-> <<2, 1>>,
      DownMaxPercentPerStep |-> 50,
      PrewarmWindowSteps    |-> 0,
      RoundingMode          |-> "ceil" ]

LoopPolicies == {LoopPolicy(m) : m \in {1, 2}}

ModelKinds == {"baseline", "arima"}

\* What Predict can return: K = horizon / step values (at least one).
LoopForecastValues == {0, 5}
\* Predict rounds the number of steps up.
PredictLen_roundsUp(horizon, stepSec) ==
    LET numSteps == CeilDiv(horizon, stepSec)
    IN  IF numSteps <= 0 THEN 1 ELSE numSteps

PredictLen(horizon, stepSec) ==
    LET numSteps == horizon \div stepSec
    IN  IF numSteps <= 0 THEN 1 ELSE numSteps
Forecasts(k) == {f \in SeqsUpTo(LoopForecastValues, k) : Len(f) = k}

\* Put keeps the entry a workload already has.
StorePut_keepFirst(m, snapshot) ==
    IF snapshot.Workload = ""
    THEN [err |-> TRUE, m |-> m]
    ELSE [err |-> FALSE,
          m |-> IF m[snapshot.Workload] # NoSnapshot /\ m[snapshot.Workload].DesiredReplicas # <<>>
                THEN m ELSE [m EXCEPT ![snapshot.Workload] = snapshot]]

\* storage.Store as the in-memory implementation keeps it: Put rejects an
\* empty workload and otherwise replaces the entry of the workload.
StorePut(m, snapshot) ==
    IF snapshot.Workload = ""
    THEN [err |-> TRUE, m |-> m]
    ELSE [err |-> FALSE, m |-> [m EXCEPT ![snapshot.Workload] = snapshot]]

StoreGetLatest(m, workload) ==
    IF workload \in DOMAIN m /\ m[workload] # NoSnapshot
    THEN [found |-> TRUE, snapshot |-> m[workload]]
    ELSE NoSnapshot

Configs == [policy : LoopPolicies, model : ModelKinds,
            step : {StepSec}, horizon : {HorizonSec}]

InitLoopWith(config) ==
    /\ cfg = config
    /\ now = 0
    /\ nextFire = Interval
    /\ tickerC = FALSE
    /\ cancelled = FALSE
    /\ runPc = "start"
    /\ tickPc = "idle"
    /\ tickValues = <<>>
    /\ tickDesired = <<>>
    /\ tickErr = "none"
    /\ prevTickErr = "none"
    /\ currentReplicas = cfg.policy.MinReplicas
    /\ trained = FALSE
    /\ snapshots = [w \in Workloads |-> NoSnapshot]
    /\ tickTrace = <<>>
    /\ ticksInFlight = 0
    /\ snapAtTickStart = NoSnapshot
    /\ replicasAtTickStart = cfg.policy.MinReplicas

InitLoop == \E config \in Configs : InitLoopWith(config)

\* The forecaster before New has run, for the runs that only call the planner.
LoopNotStarted == InitLoopWith(CHOOSE config \in Configs : config.model = "baseline")

\* Entry of Tick.
enterTick ==
    /\ tickPc' = "collect"
    /\ tickErr' = "running"
    /\ prevTickErr' = tickErr
    /\ tickTrace' = <<>>
    /\ ticksInFlight' = ticksInFlight + 1
    /\ snapAtTickStart' = snapshots[Workload]
    /\ replicasAtTickStart' = currentReplicas
    /\ tickValues' = <<>>
    /\ tickDesired' = <<>>

\* Run stops when a Tick reports an error.
afterTick_exitOnError(err) == IF err # "nil" THEN "returned" ELSE "select"

\* Run after Tick has returned: the error is logged and the loop goes on.
afterTick(err) == "select"

\* Tick returns err to Run.
tickReturn(err) ==
    /\ tickPc' = "idle"
    /\ tickErr' = err
    /\ ticksInFlight' = ticksInFlight - 1
    /\ runPc' = afterTick(err)
    /\ tickValues' = <<>>
    /\ tickDesired' = <<>>
    /\ UNCHANGED prevTickErr

\* Tick goes on to its next stage.
tickGoesOn(stage, values, desired) ==
    /\ tickPc' = stage
    /\ tickValues' = values
    /\ tickDesired' = desired
    /\ UNCHANGED <<tickErr, prevTickErr, ticksInFlight, runPc>>

tickFrame ==
    UNCHANGED <<cfg, now, nextFire, tickerC, cancelled, trained,
                snapAtTickStart, replicasAtTickStart, plannerVars, scalerVars, storeVars, serviceVars, modelVars>>

RunFirstTick ==
    /\ runPc = "start"
    /\ runPc' = "tick"
    /\ enterTick
    /\ UNCHANGED <<cfg, now, nextFire, tickerC, cancelled, currentReplicas, trained,
                   snapshots, plannerVars, scalerVars, storeVars, serviceVars, modelVars>>

\* The select has a default case: a Tick starts whether the ticker fired or not.
RunTickerCase_busyLoop ==
    /\ runPc = "select"
    /\ tickerC' = FALSE
    /\ runPc' = "tick"
    /\ enterTick
    /\ UNCHANGED <<cfg, now, nextFire, cancelled, currentReplicas, trained,
                   snapshots, plannerVars, scalerVars, storeVars, serviceVars, modelVars>>

\* The ticker case is taken while the previous Tick is still running.
RunTickerCase_async ==
    /\ runPc \in {"select", "tick"}
    /\ tickerC
    /\ tickerC' = FALSE
    /\ runPc' = "tick"
    /\ enterTick
    /\ UNCHANGED <<cfg, now, nextFire, cancelled, currentReplicas, trained,
                   snapshots, plannerVars, scalerVars, storeVars, serviceVars, modelVars>>

\* case <-ticker.C
RunTickerCase ==
    /\ runPc = "select"
    /\ tickerC
    /\ tickerC' = FALSE
    /\ runPc' = "tick"
    /\ enterTick
    /\ UNCHANGED <<cfg, now, nextFire, cancelled, currentReplicas, trained,
                   snapshots, plannerVars, scalerVars, storeVars, serviceVars, modelVars>>

\* case <-ctx.Done() leaves the select, not the loop.
RunDoneCase_breaksSelectOnly ==
    /\ runPc = "select"
    /\ cancelled
    /\ runPc' = "select"
    /\ UNCHANGED <<cfg, now, nextFire, tickerC, cancelled, tickPc, tickValues, tickDesired,
                   tickErr, prevTickErr, currentReplicas, trained, snapshots, tickTrace, ticksInFlight,
                   snapAtTickStart, replicasAtTickStart, plannerVars, scalerVars, storeVars, serviceVars, modelVars>>

\* case <-ctx.Done()
RunDoneCase ==
    /\ runPc = "select"
    /\ cancelled
    /\ runPc' = "returned"
    /\ UNCHANGED <<cfg, now, nextFire, tickerC, cancelled, tickPc, tickValues, tickDesired,
                   tickErr, prevTickErr, currentReplicas, trained, snapshots, tickTrace, ticksInFlight,
                   snapAtTickStart, replicasAtTickStart, plannerVars, scalerVars, storeVars, serviceVars, modelVars>>

collect ==
    /\ tickPc = "collect"
    /\ tickTrace' = Append(tickTrace, "collect")
    /\ \/ tickReturn("collect")
       \/ tickGoesOn("buildFeatures", <<>>, <<>>)
    /\ UNCHANGED <<currentReplicas, snapshots>>
    /\ tickFrame

buildFeatures ==
    /\ tickPc = "buildFeatures"
    /\ tickTrace' = Append(tickTrace, "buildFeatures")
    /\ \/ tickReturn("build features")
       \/ tickGoesOn("predict", <<>>, <<>>)
    /\ UNCHANGED <<currentReplicas, snapshots>>
    /\ tickFrame

\* model.Predict fails on unusable features and, for ARIMA, while the model is
\* not trained; otherwise it returns PredictLen values.
predict ==
    /\ tickPc = "predict"
    /\ tickTrace' = Append(tickTrace, "predict")
    /\ \/ tickReturn("predict")
       \/ /\ cfg.model = "arima" => trained
          /\ \E values \in Forecasts(PredictLen(cfg.horizon, cfg.step)) :
                tickGoesOn("calculateReplicas", values, <<>>)
    /\ UNCHANGED <<currentReplicas, snapshots>>
    /\ tickFrame

calculateReplicas ==
    /\ tickPc = "calculateReplicas"
    /\ tickTrace' = Append(tickTrace, "calculateReplicas")
    /\ LET desiredReplicas == ToReplicas(currentReplicas, tickValues, cfg.step, cfg.policy)
       IN  /\ currentReplicas' = IF Len(desiredReplicas) > 0 THEN desiredReplicas[1]
                                 ELSE currentReplicas
           /\ tickGoesOn("storeSnapshot", tickValues, desiredReplicas)
    /\ UNCHANGED snapshots
    /\ tickFrame

\* The snapshot is stamped with the time of day within the interval.
newSnapshot_timeOfInterval ==
    [ Workload        |-> Workload,
      Metric          |-> MetricName,
      GeneratedAt     |-> now % Interval,
      StepSeconds     |-> cfg.step,
      HorizonSeconds  |-> cfg.horizon,
      Values          |-> tickValues,
      DesiredReplicas |-> tickDesired ]

newSnapshot ==
    [ Workload        |-> Workload,
      Metric          |-> MetricName,
      GeneratedAt     |-> now,
      StepSeconds     |-> cfg.step,
      HorizonSeconds  |-> cfg.horizon,
      Values          |-> tickValues,
      DesiredReplicas |-> tickDesired ]

\* storeSnapshot reports an error although the snapshot was written.
storeSnapshot_writeThenFail ==
    /\ tickPc = "storeSnapshot"
    /\ tickTrace' = Append(tickTrace, "storeSnapshot")
    /\ snapshots' = StorePut(snapshots, newSnapshot).m
    /\ \/ tickReturn("store")
       \/ tickReturn("nil")
    /\ UNCHANGED currentReplicas
    /\ tickFrame

\* store.Put fails when the backend does (or rejects the snapshot); the store
\* is then left as it was.
storeSnapshot ==
    /\ tickPc = "storeSnapshot"
    /\ tickTrace' = Append(tickTrace, "storeSnapshot")
    /\ \E backendFails \in BOOLEAN :
         LET put == IF backendFails THEN [err |-> TRUE, m |-> snapshots]
                    ELSE StorePut(snapshots, newSnapshot)
         IN  /\ snapshots' = put.m
             /\ IF put.err THEN tickReturn("store") ELSE tickReturn("nil")
    /\ UNCHANGED currentReplicas
    /\ tickFrame

\* Time passes; the ticker drops a tick when the previous one is undelivered.
AdvanceTime ==
    /\ now < MaxTime
    /\ now' = now + 1
    /\ IF runPc # "returned" /\ now + 1 = nextFire
       THEN /\ tickerC' = TRUE
            /\ nextFire' = nextFire + Interval
       ELSE UNCHANGED <<tickerC, nextFire>>
    /\ UNCHANGED <<cfg, cancelled, runPc, tickPc, tickValues, tickDesired, tickErr,
                   prevTickErr, currentReplicas, trained, snapshots, tickTrace, ticksInFlight,
                   snapAtTickStart, replicasAtTickStart, plannerVars, scalerVars, storeVars, serviceVars, modelVars>>

\* main cancels the loop context on a signal or a server failure.
Cancel ==
    /\ ~cancelled
    /\ cancelled' = TRUE
    /\ UNCHANGED <<cfg, now, nextFire, tickerC, runPc, tickPc, tickValues, tickDesired,
                   tickErr, prevTickErr, currentReplicas, trained, snapshots, tickTrace, ticksInFlight,
                   snapAtTickStart, replicasAtTickStart, plannerVars, scalerVars, storeVars, serviceVars, modelVars>>

----------------------------------------------------------------------------
\* The snapshot endpoint, its client and the external scaler.

DefaultMin == 2
ScalerStaleAfter == 4
ScalerLeadTimeSec == 60

\* time.Time.Format(time.RFC3339) keeps whole seconds only.
formatRFC3339(t) == (t \div TicksPerSecond) * TicksPerSecond

\* The endpoint marks a snapshot stale from the threshold on.
handleGetSnapshot_staleAtThreshold(m, workload, storeFails, t) ==
    IF workload = "" THEN [status |-> 400]
    ELSE IF storeFails THEN [status |-> 500]
    ELSE LET got == StoreGetLatest(m, workload)
         IN  IF ~got.found THEN [status |-> 404]
             ELSE [ status |-> 200,
                    stale  |-> (t - got.snapshot.GeneratedAt >= StaleAfter),
                    body   |-> [got.snapshot EXCEPT
                                  !.GeneratedAt = formatRFC3339(got.snapshot.GeneratedAt)] ]

\* The endpoint answers 404 for a stale snapshot.
handleGetSnapshot_staleIsGone(m, workload, storeFails, t) ==
    IF workload = "" THEN [status |-> 400]
    ELSE IF storeFails THEN [status |-> 500]
    ELSE LET got == StoreGetLatest(m, workload)
         IN  IF ~got.found \/ t - got.snapshot.GeneratedAt > StaleAfter
             THEN [status |-> 404]
             ELSE [ status |-> 200,
                    stale  |-> FALSE,
                    body   |-> [got.snapshot EXCEPT
                                  !.GeneratedAt = formatRFC3339(got.snapshot.GeneratedAt)] ]

\* GET /forecast/current?workload=<workload> at time t; storeFails says that
\* store.GetLatest returns an error.
handleGetSnapshot(m, workload, storeFails, t) ==
    IF workload = "" THEN [status |-> 400]
    ELSE IF storeFails THEN [status |-> 500]
    ELSE LET got == StoreGetLatest(m, workload)
         IN  IF ~got.found THEN [status |-> 404]
             ELSE [ status |-> 200,
                    stale  |-> (t - got.snapshot.GeneratedAt > StaleAfter),
                    body   |-> [got.snapshot EXCEPT
                                  !.GeneratedAt = formatRFC3339(got.snapshot.GeneratedAt)] ]

NoRequest == [none |-> TRUE]

ServiceIdle ==
    /\ httpResp = NoRequest
    /\ metricsReq = NoRequest
    /\ activeResp = NoRequest
    /\ mainPc = "running"
    /\ shutdownAt = -1
    /\ handlersInFlight = 0
    /\ handlersDone = 0

\* One GET /forecast/current request is served.
ServeGetSnapshot ==
    /\ \E workload \in Workloads \cup {""}, storeFails \in BOOLEAN :
         httpResp' =
             [ workload   |-> workload,
               storeFails |-> storeFails,
               at         |-> now,
               entry      |-> IF workload \in Workloads THEN snapshots[workload]
                              ELSE NoSnapshot,
               reply      |-> handleGetSnapshot(snapshots, workload, storeFails, now) ]
    /\ UNCHANGED <<loopVars, plannerVars, scalerVars, storeVars, metricsReq, activeResp, mainVars, modelVars>>

\* The client reports a 404 like any other unexpected status.
GetSnapshot_notFoundIsGeneric(workload, requestFails, resp) ==
    IF workload = "" THEN [err |-> "workload cannot be empty"]
    ELSE IF requestFails THEN [err |-> "request failed"]
    ELSE IF resp.status # 200 THEN [err |-> "unexpected status code"]
    ELSE [err |-> "nil", Snapshot |-> resp.body, Stale |-> resp.stale]

\* ForecasterClient.GetSnapshot on the endpoint's response.
GetSnapshot(workload, requestFails, resp) ==
    IF workload = "" THEN [err |-> "workload cannot be empty"]
    ELSE IF requestFails THEN [err |-> "request failed"]
    ELSE IF resp.status = 404 THEN [err |-> "snapshot not found"]
    ELSE IF resp.status # 200 THEN [err |-> "unexpected status code"]
    ELSE [err |-> "nil", Snapshot |-> resp.body, Stale |-> resp.stale]

IsStale(snapshot, staleAfter, t) == t - snapshot.GeneratedAt > staleAfter

\* The scaler takes the value leadSteps into the plan, past its end if need be.
selectDesired_noClamp(snapshot, leadTime) ==
    LET leadSteps == leadTime \div snapshot.StepSeconds
    IN  IF leadSteps + 1 \in DOMAIN snapshot.DesiredReplicas
        THEN snapshot.DesiredReplicas[leadSteps + 1]
        ELSE 0

\* The value the scaler picks from a usable snapshot.
selectDesired(snapshot, leadTime) ==
    LET leadSteps == leadTime \div snapshot.StepSeconds
        i         == MinOf(leadSteps, Len(snapshot.DesiredReplicas) - 1)
    IN  snapshot.DesiredReplicas[i + 1]

\* GetMetrics answers defaultMin when the forecaster has no snapshot.
GetMetrics_missingIsDefault(result, leadTime, t) ==
    IF result.err # "nil" THEN [kind |-> "value", value |-> DefaultMin]
    ELSE IF IsStale(result.Snapshot, ScalerStaleAfter, t)
         THEN [kind |-> "value", value |-> DefaultMin]
    ELSE IF result.Snapshot.StepSeconds <= 0 THEN [kind |-> "value", value |-> DefaultMin]
    ELSE [kind |-> "value", value |-> selectDesired(result.Snapshot, leadTime)]

\* Scaler.GetMetrics on the client's result.
GetMetrics(result, leadTime, t) ==
    IF result.err = "snapshot not found" THEN [kind |-> "error", code |-> "NotFound"]
    ELSE IF result.err # "nil" THEN [kind |-> "value", value |-> DefaultMin]
    ELSE IF IsStale(result.Snapshot, ScalerStaleAfter, t)
         THEN [kind |-> "value", value |-> DefaultMin]
    ELSE IF result.Snapshot.StepSeconds <= 0 THEN [kind |-> "value", value |-> DefaultMin]
    ELSE [kind |-> "value", value |-> selectDesired(result.Snapshot, leadTime)]

\* IsActive looks at the first value of the plan, whatever the lead time.
IsActive_firstValue(result, leadTime, t) ==
    IF result.err # "nil" THEN FALSE
    ELSE IF IsStale(result.Snapshot, ScalerStaleAfter, t) THEN FALSE
    ELSE IF result.Snapshot.StepSeconds <= 0 THEN FALSE
    ELSE result.Snapshot.DesiredReplicas[1] > 0

\* IsActive is true for a stale snapshot too.
IsActive_ignoresStale(result, leadTime, t) ==
    IF result.err # "nil" THEN FALSE
    ELSE IF result.Snapshot.StepSeconds <= 0 THEN FALSE
    ELSE selectDesired(result.Snapshot, leadTime) > 0

\* Scaler.IsActive on the client's result.
IsActive(result, leadTime, t) ==
    IF result.err # "nil" THEN FALSE
    ELSE IF IsStale(result.Snapshot, ScalerStaleAfter, t) THEN FALSE
    ELSE IF result.Snapshot.StepSeconds <= 0 THEN FALSE
    ELSE selectDesired(result.Snapshot, leadTime) > 0

NoResponse == [case |-> "none"]

InitScaler == metricsResp = NoResponse

\* The situation a GetMetrics call for workload w is in.
metricsCase(w, requestFails) ==
    IF requestFails THEN "fetch error"
    ELSE IF snapshots[w] = NoSnapshot THEN "missing"
    ELSE IF IsStale([snapshots[w] EXCEPT !.GeneratedAt = formatRFC3339(@)],
                    ScalerStaleAfter, now) THEN "stale"
    ELSE IF snapshots[w].StepSeconds <= 0 THEN "invalid step"
    ELSE "fresh"

\* One GetMetrics call for workload w by a scaler configured with leadTime.
ScalerGetMetricsOf(w, requestFails, leadTime) ==
    /\ metricsResp' =
          [ case |-> metricsCase(w, requestFails),
            resp |-> GetMetrics(GetSnapshot(w, requestFails,
                                            handleGetSnapshot(snapshots, w, FALSE, now)),
                                leadTime, now) ]
    /\ UNCHANGED <<loopVars, plannerVars, storeVars>>

ScalerGetMetrics ==
    /\ \E w \in Workloads, requestFails \in BOOLEAN :
         ScalerGetMetricsOf(w, requestFails, ScalerLeadTimeSec)
    /\ UNCHANGED <<serviceVars, modelVars>>

\* The lead times scalers are configured with.
ScalerLeadTimes == {0, ScalerLeadTimeSec, 300}

\* What a call of the scaler at this moment is given.
scalerRequest(w, requestFails, leadTime) ==
    [ workload     |-> w,
      requestFails |-> requestFails,
      leadTime     |-> leadTime,
      at           |-> now,
      entry        |-> snapshots[w] ]

\* A GetMetrics call, with what it was given kept for examination.
PollGetMetrics ==
    /\ \E w \in Workloads, requestFails \in BOOLEAN, leadTime \in ScalerLeadTimes :
         /\ ScalerGetMetricsOf(w, requestFails, leadTime)
         /\ metricsReq' = scalerRequest(w, requestFails, leadTime)
    /\ UNCHANGED <<httpResp, activeResp, mainVars, modelVars>>

\* An IsActive call.
PollIsActive ==
    /\ \E w \in Workloads, requestFails \in BOOLEAN, leadTime \in ScalerLeadTimes :
         activeResp' =
             [ req    |-> scalerRequest(w, requestFails, leadTime),
               result |-> IsActive(GetSnapshot(w, requestFails,
                                               handleGetSnapshot(snapshots, w, FALSE, now)),
                                   leadTime, now) ]
    /\ UNCHANGED <<loopVars, plannerVars, storeVars, scalerVars, httpResp, metricsReq, mainVars, modelVars>>

----------------------------------------------------------------------------
\* pkg/models ARIMA: Train is the writer of the fitted state, Predict its
\* reader.  The fitted state is followed as the number of the Train call that
\* produced its AR part and its MA part (0 before any training).

MaxTrains == 2
MaxPredicts == 2

Trainers == {"train1"}
Predictors == {"pred1", "pred2"}
ModelCallers == Trainers \cup Predictors

ModelUnlocked == [writer |-> "none", readers |-> {}]
NoModelCall == [none |-> TRUE]
Unfitted == [ar |-> 0, ma |-> 0]

\* How a Train call ends: without error, on too short a history, on a failed
\* coefficient estimation, or on a cancelled context.
TrainOutcomes == {"nil", "need at least", "numerical instability", "canceled"}

ArimaIdle ==
    /\ arMu = ModelUnlocked
    /\ arFitted = Unfitted
    /\ arPc = [c \in ModelCallers |-> "idle"]
    /\ arTmp = [c \in ModelCallers |-> NoModelCall]
    /\ arResult = [c \in ModelCallers |-> NoModelCall]
    /\ arCalls = [train |-> 0, predict |-> 0]
    /\ arTrainedOk = 0

\* No call of BaselineModel.Predict is under examination.
BaselineIdle ==
    /\ bpCall = NoModelCall
    /\ bpDone = TRUE
    /\ bpResult = NoModelCall

\* No call of Collect or BuildFeatures is under examination.
PipelineIdle ==
    /\ adCall = NoModelCall /\ adDone = TRUE /\ adResult = NoModelCall
    /\ bfCall = NoModelCall /\ bfDone = TRUE /\ bfResult = NoModelCall

ModelIdle == ArimaIdle /\ BaselineIdle /\ PipelineIdle

\* The model's state as a caller can observe it.
modelState == [fitted |-> arFitted, trained |-> trained]

\* The predictors whose call is under way.
predicting == {p \in Predictors : arPc[p] # "idle"}

\* Train is called: the context and the length of the history are checked
\* before anything is computed.
TrainCall(t) ==
    /\ arPc[t] = "idle"
    /\ arCalls.train < MaxTrains
    /\ arCalls' = [arCalls EXCEPT !.train = @ + 1]
    /\ \E outcome \in TrainOutcomes :
          IF outcome \in {"canceled", "need at least"}
          THEN /\ arResult' = [arResult EXCEPT ![t] =
                      [err |-> outcome, before |-> modelState, after |-> modelState]]
               /\ UNCHANGED <<arPc, arTmp>>
          ELSE /\ arPc' = [arPc EXCEPT ![t] = "fitting"]
               /\ arTmp' = [p \in ModelCallers |->
                      IF p = t THEN [outcome |-> outcome, fit |-> arCalls.train + 1,
                                     before |-> modelState]
                      ELSE IF p \in predicting THEN [arTmp[p] EXCEPT !.overlap = TRUE]
                      ELSE arTmp[p]]
               /\ arResult' = [arResult EXCEPT ![t] = NoModelCall]
    /\ UNCHANGED <<arMu, arFitted, arTrainedOk, trained>>

\* The AR coefficients are stored as soon as they are estimated, before the
\* estimation is known to have succeeded.
TrainFit_persistsEarly(t) ==
    /\ arPc[t] = "fitting"
    /\ IF arTmp[t].outcome = "numerical instability"
       THEN /\ arFitted' = [arFitted EXCEPT !.ar = arTmp[t].fit]
            /\ arResult' = [arResult EXCEPT ![t] =
                   [err |-> arTmp[t].outcome, before |-> arTmp[t].before,
                    after |-> [fitted |-> arFitted', trained |-> trained]]]
            /\ arPc' = [arPc EXCEPT ![t] = "idle"]
            /\ arTmp' = [arTmp EXCEPT ![t] = NoModelCall]
       ELSE /\ arPc' = [arPc EXCEPT ![t] = "waiting"]
            /\ UNCHANGED <<arFitted, arResult, arTmp>>
    /\ UNCHANGED <<arMu, arCalls, arTrainedOk, trained>>

\* Differencing and the estimation of the coefficients, on local values: a
\* failed estimation ends the call.
TrainFit(t) ==
    /\ arPc[t] = "fitting"
    /\ IF arTmp[t].outcome = "numerical instability"
       THEN /\ arResult' = [arResult EXCEPT ![t] =
                   [err |-> arTmp[t].outcome, before |-> arTmp[t].before,
                    after |-> modelState]]
            /\ arPc' = [arPc EXCEPT ![t] = "idle"]
            /\ arTmp' = [arTmp EXCEPT ![t] = NoModelCall]
       ELSE /\ arPc' = [arPc EXCEPT ![t] = "waiting"]
            /\ UNCHANGED <<arResult, arTmp>>
    /\ UNCHANGED <<arMu, arFitted, arCalls, arTrainedOk, trained>>

\* mu.Lock() of Train.
TrainLock(t) ==
    /\ arPc[t] = "waiting"
    /\ arMu = ModelUnlocked
    /\ arMu' = [arMu EXCEPT !.writer = t]
    /\ arPc' = [arPc EXCEPT ![t] = "locked"]
    /\ UNCHANGED <<arFitted, arTmp, arResult, arCalls, arTrainedOk, trained>>

\* The fitted state is being assigned: the AR part is the new one, the MA
\* part still the old one.
TrainPersistAR(t) ==
    /\ arPc[t] = "locked"
    /\ arFitted' = [arFitted EXCEPT !.ar = arTmp[t].fit]
    /\ arPc' = [arPc EXCEPT ![t] = "half"]
    /\ UNCHANGED <<arMu, arTmp, arResult, arCalls, arTrainedOk, trained>>

\* The assignment completes, the model is marked trained and Train unlocks
\* and returns.
TrainPersist(t) ==
    /\ arPc[t] = "half"
    /\ arFitted' = [arFitted EXCEPT !.ma = arTmp[t].fit]
    /\ trained' = TRUE
    /\ arMu' = ModelUnlocked
    /\ arResult' = [arResult EXCEPT ![t] =
          [err |-> "nil", before |-> arTmp[t].before,
           after |-> [fitted |-> arFitted', trained |-> TRUE]]]
    /\ arTrainedOk' = arTrainedOk + 1
    /\ arPc' = [arPc EXCEPT ![t] = "idle"]
    /\ arTmp' = [arTmp EXCEPT ![t] = NoModelCall]
    /\ UNCHANGED arCalls

\* Predict is called, with a live or a cancelled context.
PredictCall(p) ==
    /\ arPc[p] = "idle"
    /\ arCalls.predict < MaxPredicts
    /\ arCalls' = [arCalls EXCEPT !.predict = @ + 1]
    /\ \E ctxCancelled \in BOOLEAN :
          arTmp' = [arTmp EXCEPT ![p] =
              [cancelled |-> ctxCancelled,
               overlap   |-> \E t \in Trainers : arPc[t] # "idle",
               ar        |-> 0]]
    /\ arPc' = [arPc EXCEPT ![p] = "waiting"]
    /\ arResult' = [arResult EXCEPT ![p] = NoModelCall]
    /\ UNCHANGED <<arMu, arFitted, arTrainedOk, trained>>

\* Predict reads the model without waiting for the writer.
PredictRLock_noWait(p) ==
    /\ arPc[p] = "waiting"
    /\ arMu' = [arMu EXCEPT !.readers = @ \cup {p}]
    /\ arPc' = [arPc EXCEPT ![p] = "rlocked"]
    /\ UNCHANGED <<arFitted, arTmp, arResult, arCalls, arTrainedOk, trained>>

\* mu.RLock() of Predict.
PredictRLock(p) ==
    /\ arPc[p] = "waiting"
    /\ arMu.writer = "none"
    /\ arMu' = [arMu EXCEPT !.readers = @ \cup {p}]
    /\ arPc' = [arPc EXCEPT ![p] = "rlocked"]
    /\ UNCHANGED <<arFitted, arTmp, arResult, arCalls, arTrainedOk, trained>>

\* Predict ends with err and unlocks.
predictFails(p, err) ==
    /\ arResult' = [arResult EXCEPT ![p] =
          [err |-> err, overlap |-> arTmp[p].overlap, trainedOk |-> arTrainedOk,
           used |-> Unfitted]]
    /\ arMu' = [arMu EXCEPT !.readers = @ \ {p}]
    /\ arPc' = [arPc EXCEPT ![p] = "idle"]
    /\ arTmp' = [arTmp EXCEPT ![p] = NoModelCall]

\* Predict goes on to forecast from the AR part it has read.
predictReads(p) ==
    /\ arTmp' = [arTmp EXCEPT ![p].ar = arFitted.ar]
    /\ arPc' = [arPc EXCEPT ![p] = "reading"]
    /\ UNCHANGED <<arMu, arResult>>

\* Predict forecasts whether or not the model was trained.
PredictCheck_skipsTrained(p) ==
    /\ arPc[p] = "rlocked"
    /\ IF arTmp[p].cancelled THEN predictFails(p, "canceled")
       ELSE predictReads(p)
    /\ UNCHANGED <<arFitted, arCalls, arTrainedOk, trained>>

\* Predict requires the model to be trained and the context to be live.
PredictCheck(p) ==
    /\ arPc[p] = "rlocked"
    /\ IF ~trained THEN predictFails(p, "not trained")
       ELSE IF arTmp[p].cancelled THEN predictFails(p, "canceled")
       ELSE predictReads(p)
    /\ UNCHANGED <<arFitted, arCalls, arTrainedOk, trained>>

\* Predict has forecast from the AR and the MA part, unlocks and returns.
PredictReturn(p) ==
    /\ arPc[p] = "reading"
    /\ arResult' = [arResult EXCEPT ![p] =
          [err |-> "nil", overlap |-> arTmp[p].overlap, trainedOk |-> arTrainedOk,
           used |-> [ar |-> arTmp[p].ar, ma |-> arFitted.ma]]]
    /\ arMu' = [arMu EXCEPT !.readers = @ \ {p}]
    /\ arPc' = [arPc EXCEPT ![p] = "idle"]
    /\ arTmp' = [arTmp EXCEPT ![p] = NoModelCall]
    /\ UNCHANGED <<arFitted, arCalls, arTrainedOk, trained>>

\* What the callers of the model leave alone.
modelFrame ==
    UNCHANGED <<cfg, now, nextFire, tickerC, cancelled, runPc, tickPc, tickValues,
                tickDesired, tickErr, prevTickErr, currentReplicas, snapshots, tickTrace,
                ticksInFlight, snapAtTickStart, replicasAtTickStart, plannerVars,
                scalerVars, storeVars, serviceVars, baselineVars, pipelineVars>>

----------------------------------------------------------------------------
\* MemoryStore under concurrent callers: Put holds the write lock while it
\* assigns the map entry, GetLatest holds the read lock while it copies the
\* entry out, the TTL cleanup holds the write lock while it deletes.

MaxStoreTime == 2
MaxPuts == 2
MaxGets == 1
StoreTTL == 1

Writers == {"put1", "put2"}
Readers == {"get1"}
Callers == Writers \cup Readers

StoreValues == {1, 2}

NoArg == [none |-> TRUE]
NoResult == [none |-> TRUE]
Unlocked == [writer |-> "none", readers |-> {}]

\* The snapshots a caller may pass to Put at time t.
PutArgs(t) ==
    { [ Workload        |-> w,
        Metric          |-> MetricName,
        GeneratedAt     |-> t,
        StepSeconds     |-> StepSec,
        HorizonSeconds  |-> HorizonSec,
        Values          |-> <<v>>,
        DesiredReplicas |-> <<v>> ] : w \in Workloads \cup {""}, v \in StoreValues }

StoreIdle ==
    /\ mu = Unlocked
    /\ stPc = [c \in Callers |-> "idle"]
    /\ stArg = [c \in Callers |-> NoArg]
    /\ stSeen = [r \in Readers |-> NoArg]
    /\ stResult = [r \in Readers |-> NoResult]
    /\ lastPut = [w \in Workloads |-> NoSnapshot]
    /\ evicted = [w \in Workloads |-> FALSE]
    /\ stCalls = [put |-> 0, get |-> 0]
    /\ overwritten = [w \in Workloads |-> FALSE]
    /\ stopped = FALSE
    /\ stopCalls = 0
    /\ stopResult = "none"

\* What a GetLatest of workload w is due, going by the history of the store.
visible(w) == IF evicted[w] THEN NoSnapshot ELSE lastPut[w]

\* The readers whose GetLatest(w) is under way.
readingOf(w) == {r \in Readers : stPc[r] # "idle" /\ stArg[r] = w}

\* The writers whose Put for workload w is under way.
puttingOf(w) == {p \in Writers : stPc[p] # "idle" /\ stArg[p].Workload = w}

\* The entry of the map while the struct is being assigned: the leading
\* fields are the new ones, the trailing slice is still the old one.
halfWritten(old, snapshot) ==
    [snapshot EXCEPT !.DesiredReplicas =
        IF old = NoSnapshot THEN <<>> ELSE old.DesiredReplicas]

\* Put is called: an empty workload is rejected before the lock is taken.
PutCall(p) ==
    /\ stPc[p] = "idle"
    /\ stCalls.put < MaxPuts
    /\ stCalls' = [stCalls EXCEPT !.put = @ + 1]
    /\ \E snapshot \in PutArgs(now) :
          /\ IF StorePut(snapshots, snapshot).err
             THEN UNCHANGED <<stArg, stPc>>
             ELSE /\ stArg' = [stArg EXCEPT ![p] = snapshot]
                  /\ stPc' = [stPc EXCEPT ![p] = "waiting"]
          /\ stSeen' = [r \in Readers |->
                IF r \in readingOf(snapshot.Workload)
                THEN [stSeen[r] EXCEPT !.puts = @ \cup {snapshot}]
                ELSE stSeen[r]]
    /\ UNCHANGED <<mu, stResult, lastPut, evicted, overwritten, snapshots, now>>

\* mu.Lock() of Put.
PutLock(p) ==
    /\ stPc[p] = "waiting"
    /\ mu = Unlocked
    /\ mu' = [mu EXCEPT !.writer = p]
    /\ stPc' = [stPc EXCEPT ![p] = "locked"]
    /\ UNCHANGED <<stArg, stSeen, stResult, lastPut, evicted, stCalls, overwritten, snapshots, now>>

\* The assignment of the map entry has begun.
PutWriteFields(p) ==
    /\ stPc[p] = "locked"
    /\ snapshots' = [snapshots EXCEPT ![stArg[p].Workload] = halfWritten(@, stArg[p])]
    /\ stPc' = [stPc EXCEPT ![p] = "half"]
    /\ UNCHANGED <<mu, stArg, stSeen, stResult, lastPut, evicted, stCalls, overwritten, now>>

\* The assignment completes and Put unlocks.
PutUnlock(p) ==
    /\ stPc[p] = "half"
    /\ LET w == stArg[p].Workload
       IN  /\ snapshots' = StorePut(snapshots, stArg[p]).m
           /\ overwritten' = [overwritten EXCEPT ![w] = (visible(w) # NoSnapshot)]
           /\ lastPut' = [lastPut EXCEPT ![w] = stArg[p]]
           /\ evicted' = [evicted EXCEPT ![w] = FALSE]
    /\ mu' = Unlocked
    /\ stPc' = [stPc EXCEPT ![p] = "idle"]
    /\ stArg' = [stArg EXCEPT ![p] = NoArg]
    /\ UNCHANGED <<stSeen, stResult, stCalls, now>>

\* GetLatest is called.
GetLatestCall(r) ==
    /\ stPc[r] = "idle"
    /\ stCalls.get < MaxGets
    /\ stCalls' = [stCalls EXCEPT !.get = @ + 1]
    /\ \E w \in Workloads :
          /\ stArg' = [stArg EXCEPT ![r] = w]
          /\ stSeen' = [stSeen EXCEPT ![r] =
                [ prior |-> {visible(w)},
                  puts  |-> {stArg[p] : p \in puttingOf(w)} ]]
    /\ stPc' = [stPc EXCEPT ![r] = "waiting"]
    /\ stResult' = [stResult EXCEPT ![r] = NoResult]
    /\ UNCHANGED <<mu, lastPut, evicted, overwritten, snapshots, now>>

\* GetLatest reads the map without waiting for the writer.
GetLatestRLock_noWait(r) ==
    /\ stPc[r] = "waiting"
    /\ mu' = [mu EXCEPT !.readers = @ \cup {r}]
    /\ stPc' = [stPc EXCEPT ![r] = "rlocked"]
    /\ UNCHANGED <<stArg, stSeen, stResult, lastPut, evicted, stCalls, overwritten, snapshots, now>>

\* mu.RLock() of GetLatest.
GetLatestRLock(r) ==
    /\ stPc[r] = "waiting"
    /\ mu.writer = "none"
    /\ mu' = [mu EXCEPT !.readers = @ \cup {r}]
    /\ stPc' = [stPc EXCEPT ![r] = "rlocked"]
    /\ UNCHANGED <<stArg, stSeen, stResult, lastPut, evicted, stCalls, overwritten, snapshots, now>>

\* GetLatest copies the entry out and unlocks.
GetLatestReturn(r) ==
    /\ stPc[r] = "rlocked"
    /\ stResult' = [stResult EXCEPT ![r] =
          [ workload    |-> stArg[r],
            got         |-> StoreGetLatest(snapshots, stArg[r]),
            lastPut     |-> lastPut[stArg[r]],
            evicted     |-> evicted[stArg[r]],
            overwritten |-> overwritten[stArg[r]],
            seen        |-> stSeen[r] ]]
    /\ mu' = [mu EXCEPT !.readers = @ \ {r}]
    /\ stPc' = [stPc EXCEPT ![r] = "idle"]
    /\ stArg' = [stArg EXCEPT ![r] = NoArg]
    /\ stSeen' = [stSeen EXCEPT ![r] = NoArg]
    /\ UNCHANGED <<lastPut, evicted, stCalls, overwritten, snapshots, now>>

\* The cleanup also removes an entry whose age is exactly the TTL.
expired_atThreshold(entry, t) == entry # NoSnapshot /\ entry.GeneratedAt + StoreTTL <= t

\* An entry the cleanup removes at time t.
expired(entry, t) == entry # NoSnapshot /\ entry.GeneratedAt + StoreTTL < t

\* One pass of the TTL cleanup, under the write lock.
cleanup ==
    /\ ~stopped
    /\ mu = Unlocked
    /\ \E w \in Workloads : expired(snapshots[w], now)
    /\ snapshots' = [w \in Workloads |->
          IF expired(snapshots[w], now) THEN NoSnapshot ELSE snapshots[w]]
    /\ evicted' = [w \in Workloads |-> evicted[w] \/ expired(snapshots[w], now)]
    /\ stSeen' = [r \in Readers |->
          IF stPc[r] # "idle" /\ expired(snapshots[stArg[r]], now)
          THEN [stSeen[r] EXCEPT !.prior = @ \cup {NoSnapshot}]
          ELSE stSeen[r]]
    /\ UNCHANGED <<mu, stPc, stArg, stResult, lastPut, stCalls, overwritten, now>>

\* Time passes for the store.
StoreClock ==
    /\ now < MaxStoreTime
    /\ now' = now + 1
    /\ UNCHANGED <<storeVars, snapshots>>

InitStore == PlannerIdle /\ LoopNotStarted /\ InitScaler /\ StoreIdle /\ ServiceIdle /\ ModelIdle

NextStore ==
    \/ \E p \in Writers : PutCall(p) /\ UNCHANGED <<plannerVars, loopVarsNotStore, scalerVars, serviceVars, stopVars, modelVars>>
    \/ \E p \in Writers : PutLock(p) /\ UNCHANGED <<plannerVars, loopVarsNotStore, scalerVars, serviceVars, stopVars, modelVars>>
    \/ \E p \in Writers : PutWriteFields(p) /\ UNCHANGED <<plannerVars, loopVarsNotStore, scalerVars, serviceVars, stopVars, modelVars>>
    \/ \E p \in Writers : PutUnlock(p) /\ UNCHANGED <<plannerVars, loopVarsNotStore, scalerVars, serviceVars, stopVars, modelVars>>
    \/ \E r \in Readers : GetLatestCall(r) /\ UNCHANGED <<plannerVars, loopVarsNotStore, scalerVars, serviceVars, stopVars, modelVars>>
    \/ \E r \in Readers : GetLatestRLock(r) /\ UNCHANGED <<plannerVars, loopVarsNotStore, scalerVars, serviceVars, stopVars, modelVars>>
    \/ \E r \in Readers : GetLatestReturn(r) /\ UNCHANGED <<plannerVars, loopVarsNotStore, scalerVars, serviceVars, stopVars, modelVars>>
    \/ cleanup /\ UNCHANGED <<plannerVars, loopVarsNotStore, scalerVars, serviceVars, stopVars, modelVars>>
    \/ StoreClock /\ UNCHANGED <<plannerVars, loopVarsNotStore, scalerVars, serviceVars, stopVars, modelVars>>

SpecStore == InitStore /\ [][NextStore]_vars

MaxStops == 2

\* A second Stop closes the stop channel again, which panics.
StopOutcome_closesTwice(wasStopped) == IF wasStopped THEN "panic" ELSE "ok"

\* Stop signals the cleanup goroutine once, however often it is called.
StopOutcome(wasStopped) == "ok"

\* Stop is called.
Stop ==
    /\ stopCalls < MaxStops
    /\ stopCalls' = stopCalls + 1
    /\ stopped' = TRUE
    /\ stopResult' = StopOutcome(stopped)
    /\ UNCHANGED <<mu, stPc, stArg, stSeen, stResult, lastPut, evicted, stCalls,
                   overwritten, snapshots, now>>

storeStopFrame == UNCHANGED <<plannerVars, loopVarsNotStore, scalerVars, serviceVars, modelVars>>

\* One writer, the cleanup and callers of Stop.
NextStoreStop ==
    \/ PutCall("put1") /\ storeStopFrame /\ UNCHANGED stopVars
    \/ PutLock("put1") /\ storeStopFrame /\ UNCHANGED stopVars
    \/ PutWriteFields("put1") /\ storeStopFrame /\ UNCHANGED stopVars
    \/ PutUnlock("put1") /\ storeStopFrame /\ UNCHANGED stopVars
    \/ cleanup /\ storeStopFrame /\ UNCHANGED stopVars
    \/ StoreClock /\ storeStopFrame
    \/ Stop /\ storeStopFrame

SpecStoreStop == InitStore /\ [][NextStoreStop]_vars

InitModel == PlannerIdle /\ LoopNotStarted /\ InitScaler /\ StoreIdle /\ ServiceIdle /\ ModelIdle

NextModel ==
    \/ \E t \in Trainers : TrainCall(t) /\ modelFrame
    \/ \E t \in Trainers : TrainFit(t) /\ modelFrame
    \/ \E t \in Trainers : TrainLock(t) /\ modelFrame
    \/ \E t \in Trainers : TrainPersistAR(t) /\ modelFrame
    \/ \E t \in Trainers : TrainPersist(t) /\ modelFrame
    \/ \E p \in Predictors : PredictCall(p) /\ modelFrame
    \/ \E p \in Predictors : PredictRLock(p) /\ modelFrame
    \/ \E p \in Predictors : PredictCheck(p) /\ modelFrame
    \/ \E p \in Predictors : PredictReturn(p) /\ modelFrame

SpecModel == InitModel /\ [][NextModel]_vars

\* What a GetLatest result hands to its caller.
returned(result) == IF result.got.found THEN result.got.snapshot ELSE NoSnapshot

\* C4: a GetLatest of a workload that has been put and not evicted returns
\* found with a snapshot equal, field by field, to the argument of the last
\* successful Put for that workload.
C4_LastWriterWins ==
    \A r \in Readers :
        (stResult[r] # NoResult /\ stResult[r].lastPut # NoSnapshot /\ ~stResult[r].evicted) =>
            /\ stResult[r].got.found
            /\ \A f \in DOMAIN stResult[r].lastPut :
                  stResult[r].got.snapshot[f] = stResult[r].lastPut[f]

\* A GetLatest returned the snapshot of a Put that had replaced an earlier one.
C4_Witness ==
    \E r \in Readers :
        /\ stResult[r] # NoResult
        /\ stResult[r].lastPut # NoSnapshot
        /\ ~stResult[r].evicted
        /\ stResult[r].overwritten
        /\ stResult[r].got.found
        /\ stResult[r].got.snapshot = stResult[r].lastPut

\* C5: a GetLatest overlapped by a Put for the same workload returns, whole,
\* what was stored when it was called or the argument of an overlapping Put.
C5_WholeSnapshot ==
    \A r \in Readers :
        (stResult[r] # NoResult /\ stResult[r].seen.puts # {}) =>
            returned(stResult[r]) \in stResult[r].seen.prior \cup stResult[r].seen.puts

\* A GetLatest overlapped by a Put of another snapshot returned the earlier one.
C5_Witness ==
    \E r \in Readers :
        /\ stResult[r] # NoResult
        /\ stResult[r].got.found
        /\ \E s \in stResult[r].seen.puts : s # stResult[r].got.snapshot
        /\ stResult[r].got.snapshot \in stResult[r].seen.prior

----------------------------------------------------------------------------
\* The specifications.

InitOfPlanner == InitPlanner /\ LoopNotStarted /\ InitScaler /\ StoreIdle /\ ServiceIdle /\ ModelIdle

Init == PlannerIdle /\ InitLoop /\ InitScaler /\ StoreIdle /\ ServiceIdle /\ ModelIdle

NextPlanner == CallToReplicas /\ UNCHANGED <<loopVars, scalerVars, storeVars, serviceVars, modelVars>>

SpecPlanner == InitOfPlanner /\ [][NextPlanner]_vars

\* Two invocations on the same arguments, with time passing and an
\* invocation on other arguments in between.
TwicePolicies ==
    {p \in Policies : /\ p.TargetPerPod = 2
                      /\ p.Headroom = <<3, 2>>
                      /\ p.MaxReplicas = 5
                      /\ p.UpMaxFactorPerStep = <<3, 2>>
                      /\ p.DownMaxPercentPerStep = 25
                      /\ p.RoundingMode = "ceil"}

TwiceInputs ==
    [ prev     : PrevValues,
      forecast : SeqsUpTo(ForecastValues, MaxLen),
      stepSec  : StepSecValues,
      policy   : TwicePolicies ]

OtherInput ==
    [ prev     |-> 7,
      forecast |-> <<8, 3>>,
      stepSec  |-> 30,
      policy   |-> CHOOSE p \in TwicePolicies :
                      p.MinReplicas = 1 /\ p.LeadTimeSeconds = 90 /\ p.PrewarmWindowSteps = 1 ]

InitPlannerTwice ==
    /\ plCall \in TwiceInputs
    /\ plDone = FALSE
    /\ plResult = <<>>
    /\ plPanic = FALSE
    /\ plSteps = <<>>
    /\ plOther = NoCall
    /\ plAgain = NoCall

plannerFrame ==
    UNCHANGED <<loopVarsNotStore, snapshots, scalerVars, storeVars, serviceVars, modelVars>>

\* Time passes.
PlannerClock ==
    /\ now < MaxTime
    /\ now' = now + 1
    /\ UNCHANGED plannerVars
    /\ plannerFrame

\* ToReplicas is invoked on other arguments.
CallOther ==
    /\ plOther = NoCall
    /\ plOther' = [ result |-> ToReplicas(OtherInput.prev, OtherInput.forecast,
                                          OtherInput.stepSec, OtherInput.policy) ]
    /\ UNCHANGED <<plCall, plDone, plResult, plPanic, plSteps, plAgain, now>>
    /\ plannerFrame

\* ToReplicas is invoked once more on the arguments of the first call.
CallAgain ==
    /\ plDone
    /\ plAgain = NoCall
    /\ plAgain' =
          [ at     |-> now,
            other  |-> plOther,
            panic  |-> ToReplicasPanics(plCall.prev, plCall.forecast, plCall.stepSec,
                                        plCall.policy),
            result |-> ToReplicas(plCall.prev, plCall.forecast, plCall.stepSec,
                                  plCall.policy) ]
    /\ UNCHANGED <<plCall, plDone, plResult, plPanic, plSteps, plOther, now>>
    /\ plannerFrame

InitOfPlannerTwice ==
    InitPlannerTwice /\ LoopNotStarted /\ InitScaler /\ StoreIdle /\ ServiceIdle /\ ModelIdle

NextPlannerTwice ==
    \/ NextPlanner
    \/ PlannerClock
    \/ CallOther
    \/ CallAgain

SpecPlannerTwice == InitOfPlannerTwice /\ [][NextPlannerTwice]_vars

\* Two invocations whose forecasts are ordered element by element.
PairPolicies ==
    {p \in Policies : /\ p.TargetPerPod = 2
                      /\ p.Headroom = <<3, 2>>
                      /\ p.MaxReplicas \in {0, 5}
                      /\ p.RoundingMode = "ceil"}

PairInputs ==
    [ prev     : PrevValues,
      forecast : SeqsUpTo(ForecastValues, MaxLen),
      stepSec  : {30},
      policy   : PairPolicies ]

InitPlannerPair ==
    /\ plCall \in PairInputs
    /\ plDone = FALSE
    /\ plResult = <<>>
    /\ plPanic = FALSE
    /\ plSteps = <<>>
    /\ plOther = NoCall
    /\ plAgain = NoCall

\* ToReplicas is invoked with the prev, stepSec and policy of the first call
\* on a forecast that is nowhere below the first one.
CallLarger ==
    /\ plDone
    /\ plOther = NoCall
    /\ \E larger \in [1..Len(plCall.forecast) -> ForecastValues] :
          /\ \A i \in 1..Len(plCall.forecast) : plCall.forecast[i] <= larger[i]
          /\ plOther' = [ forecast |-> larger,
                          result   |-> ToReplicas(plCall.prev, larger, plCall.stepSec,
                                                  plCall.policy) ]
    /\ UNCHANGED <<plCall, plDone, plResult, plPanic, plSteps, plAgain, now>>
    /\ plannerFrame

InitOfPlannerPair ==
    InitPlannerPair /\ LoopNotStarted /\ InitScaler /\ StoreIdle /\ ServiceIdle /\ ModelIdle

NextPlannerPair ==
    \/ NextPlanner
    \/ CallLarger

SpecPlannerPair == InitOfPlannerPair /\ [][NextPlannerPair]_vars

InitOfPlannerWide ==
    InitPlannerWide /\ LoopNotStarted /\ InitScaler /\ StoreIdle /\ ServiceIdle /\ ModelIdle

SpecPlannerWide == InitOfPlannerWide /\ [][NextPlanner]_vars

\* The Run goroutine and the clock.
RunNext ==
    \/ RunFirstTick
    \/ RunTickerCase
    \/ RunDoneCase
    \/ collect
    \/ buildFeatures
    \/ predict
    \/ calculateReplicas
    \/ storeSnapshot
    \/ AdvanceTime

LoopNext ==
    \/ RunNext
    \/ Cancel

Next ==
    \/ LoopNext
    \/ ScalerGetMetrics

Spec == Init /\ [][Next]_vars

\* Time passes and a select with a ready case takes one.
\* The forecaster serving its endpoint while the loop runs.
ServeConfigs == {c \in Configs : c.model = "baseline" /\ c.policy.MinReplicas = 1}

InitServe ==
    /\ PlannerIdle
    /\ \E config \in ServeConfigs : InitLoopWith(config)
    /\ InitScaler /\ StoreIdle /\ ServiceIdle /\ ModelIdle

\* The run is followed up to the request under examination; the handler keeps
\* no state, so each request is answered from the loop's state alone.
NextServe ==
    \/ httpResp = NoRequest /\ LoopNext
    \/ httpResp = NoRequest /\ ServeGetSnapshot

SpecServe == InitServe /\ [][NextServe]_vars

\* The loop while every Tick succeeds and completes within one interval: Run
\* makes its first call at once and takes a tick of the ticker before time
\* moves on, so a Tick has returned by the time the next one is due.
tickSucceeds == tickErr' \in {"running", "nil"}

OnTimeAdvance ==
    /\ runPc # "start"
    /\ ~tickerC
    /\ AdvanceTime

NextOnTime ==
    \/ httpResp = NoRequest /\ RunFirstTick
    \/ httpResp = NoRequest /\ RunTickerCase
    \/ httpResp = NoRequest /\ collect /\ tickSucceeds
    \/ httpResp = NoRequest /\ buildFeatures /\ tickSucceeds
    \/ httpResp = NoRequest /\ predict /\ tickSucceeds
    \/ httpResp = NoRequest /\ calculateReplicas /\ tickSucceeds
    \/ httpResp = NoRequest /\ storeSnapshot /\ tickSucceeds
    \/ httpResp = NoRequest /\ OnTimeAdvance
    \/ httpResp = NoRequest /\ ServeGetSnapshot

SpecOnTime == InitServe /\ [][NextOnTime]_vars

\* Scalers polling the forecaster while the loop runs, for a policy that
\* allows scaling to zero.
ScalerConfigs == [policy : {LoopPolicy(0)}, model : {"baseline"},
                  step : {StepSec}, horizon : {HorizonSec}]

InitScalerPolls ==
    /\ PlannerIdle
    /\ \E config \in ScalerConfigs : InitLoopWith(config)
    /\ InitScaler /\ StoreIdle /\ ServiceIdle /\ ModelIdle

\* The run is followed up to the one call under examination.
NextScalerPolls ==
    \/ metricsReq = NoRequest /\ activeResp = NoRequest /\ LoopNext
    \/ metricsReq = NoRequest /\ activeResp = NoRequest /\ PollGetMetrics
    \/ metricsReq = NoRequest /\ activeResp = NoRequest /\ PollIsActive

SpecScaler == InitScalerPolls /\ [][NextScalerPolls]_vars

\* The loop under horizons shorter than, and not a multiple of, the step.
HorizonValues == {30, 90, HorizonSec}

HorizonConfigs == [policy : {LoopPolicy(1)}, model : {"baseline"},
                   step : {StepSec}, horizon : HorizonValues]

InitHorizon ==
    /\ PlannerIdle
    /\ \E config \in HorizonConfigs : InitLoopWith(config)
    /\ InitScaler /\ StoreIdle /\ ServiceIdle /\ ModelIdle

SpecHorizon == InitHorizon /\ [][LoopNext]_vars

----------------------------------------------------------------------------
\* pkg/models BaselineModel.Predict on float64 values: a number (kept as the
\* exact fraction num / den), NaN, +Inf or -Inf.

RECURSIVE gcd(_, _)
gcd(a, b) == IF b = 0 THEN a ELSE gcd(b, a % b)

\* The number n / d (d > 0), in lowest terms.
Num(n, d) ==
    LET g == gcd(IF n < 0 THEN -n ELSE n, d)
    IN  [kind |-> "num", num |-> n \div g, den |-> d \div g]
NaN == [kind |-> "nan"]
PosInf == [kind |-> "+inf"]
NegInf == [kind |-> "-inf"]
Absent == [kind |-> "absent"]

IsFinite(x) == x.kind = "num"

\* a * x for a constant a = an / ad > 0.
fscale(an, ad, x) ==
    IF IsFinite(x) THEN Num(an * x.num, ad * x.den) ELSE x

\* x + y: NaN spreads, and so does the sum of opposite infinities.
fadd(x, y) ==
    IF x = NaN \/ y = NaN THEN NaN
    ELSE IF IsFinite(x) /\ IsFinite(y) THEN Num(x.num * y.den + y.num * x.den, x.den * y.den)
    ELSE IF IsFinite(x) THEN y
    ELSE IF IsFinite(y) THEN x
    ELSE IF x = y THEN x
    ELSE NaN

\* x < y: every comparison with NaN is false.
flt(x, y) ==
    IF x = NaN \/ y = NaN THEN FALSE
    ELSE IF IsFinite(x) /\ IsFinite(y) THEN x.num * y.den < y.num * x.den
    ELSE IF x = y THEN FALSE
    ELSE x = NegInf \/ y = PosInf

\* The rows' "value" fields, in order, skipping the rows without one.
valuesOf(rows) == SelectSeq(rows, LAMBDA r : r # Absent)

RECURSIVE emaLoop(_, _, _)
emaLoop(window, i, ema) ==
    IF i > Len(window) THEN ema
    ELSE emaLoop(window, i + 1,
                 fadd(fscale(2, Len(window) + 1, window[i]),
                      fscale(Len(window) - 1, Len(window) + 1, ema)))

\* computeEMA over the most recent n points, alpha = 2 / (len(window) + 1).
computeEMA(values, n) ==
    IF Len(values) = 0 THEN Num(0, 1)
    ELSE LET start  == IF Len(values) > n THEN Len(values) - n ELSE 0
             window == SubSeq(values, start + 1, Len(values))
         IN  emaLoop(window, 2, window[1])

\* The forecast value of a step: the base forecast, blended with the seasonal
\* mean of the step's hour when there is one, and floored at 0.
stepValue(baseForecast, seasonalMean) ==
    LET value == IF seasonalMean = Absent THEN baseForecast
                 ELSE fadd(fscale(8, 10, baseForecast), fscale(2, 10, seasonalMean))
    IN  IF flt(value, Num(0, 1)) THEN Num(0, 1) ELSE value

\* BaselineModel.Predict for steps that all fall into one hour of the day.
BaselinePredict(m, rows) ==
    IF Len(rows) = 0 THEN [err |-> "features cannot be empty", Values |-> <<>>]
    ELSE IF Len(valuesOf(rows)) = 0 THEN [err |-> "no 'value' field found", Values |-> <<>>]
    ELSE LET values    == valuesOf(rows)
             blend     == fadd(fscale(7, 10, computeEMA(values, 5)),
                               fscale(3, 10, computeEMA(values, 30)))
             lastValue == values[Len(values)]
             raised    == IF Len(values) >= 2 /\ flt(blend, lastValue) THEN lastValue ELSE blend
             baseForecast == IF flt(raised, Num(0, 1)) THEN Num(0, 1) ELSE raised
         IN  [ err    |-> "nil",
               Values |-> [i \in 1..PredictLen(m.horizon, m.stepSec) |->
                              stepValue(baseForecast, m.seasonalMean)] ]

\* The values a feature row or a seasonal mean can hold.
FloatValues == {Num(-4, 1), Num(0, 1), Num(6, 1), NaN, PosInf}

BaselineModels ==
    [ stepSec      : {StepSec},
      horizon      : HorizonValues,
      seasonalMean : {Absent, Num(-40, 1), Num(10, 1)} ]

InitBaseline ==
    /\ bpCall \in [ m : BaselineModels, rows : SeqsUpTo(FloatValues \cup {Absent}, MaxLen) ]
    /\ bpDone = FALSE
    /\ bpResult = NoModelCall

\* One call of Predict.
CallPredict ==
    /\ ~bpDone
    /\ bpDone' = TRUE
    /\ bpResult' = BaselinePredict(bpCall.m, bpCall.rows)
    /\ UNCHANGED bpCall

InitOfBaseline ==
    /\ PlannerIdle /\ LoopNotStarted /\ InitScaler /\ StoreIdle /\ ServiceIdle
    /\ ArimaIdle /\ PipelineIdle /\ InitBaseline

NextBaseline ==
    /\ CallPredict
    /\ UNCHANGED <<plannerVars, loopVars, scalerVars, storeVars, serviceVars,
                   arMu, arFitted, arPc, arTmp, arResult, arCalls, arTrainedOk,
                   pipelineVars>>

SpecBaseline == InitOfBaseline /\ [][NextBaseline]_vars

----------------------------------------------------------------------------
\* pkg/adapters PrometheusAdapter.Collect: the series of the reply are summed
\* per whole second, sorted by time and their timestamps formatted.

MaxPairs == 2
SeriesCount == 2

\* The instants, in ticks, a sample of the reply can carry.
SampleTicks == {0, 1, 2, 4}

\* A [timestamp, value] pair of a series; shape tells what is wrong with it.
SamplePairs ==
    [ts : SampleTicks, val : {5}, shape : {"ok"}]
        \cup [ts : {0}, val : {0}, shape : {"parse value"}]

\* tsSec = int64(v): the whole second of a float timestamp.
tsSecOf(t) == t \div TicksPerSecond

\* time.Unix(tsSec, 0).UTC(), in ticks.
timeUnix(tsSec) == tsSec * TicksPerSecond

RECURSIVE flattenSeries(_)
flattenSeries(series) ==
    IF Len(series) = 0 THEN <<>> ELSE Head(series) \o flattenSeries(Tail(series))

\* acc[tsSec] after every pair has been added to it.
RECURSIVE accOf(_, _)
accOf(pairs, tsSec) ==
    IF Len(pairs) = 0 THEN 0
    ELSE (IF tsSecOf(Head(pairs).ts) = tsSec THEN Head(pairs).val ELSE 0)
            + accOf(Tail(pairs), tsSec)

accKeys(pairs) == {tsSecOf(pairs[i].ts) : i \in 1..Len(pairs)}

\* The orders in which ranging over the map acc can visit its keys.
mapOrders(keys) ==
    {order \in [1..Cardinality(keys) -> keys] :
        \A i, j \in 1..Cardinality(keys) : i # j => order[i] # order[j]}

\* aggregateRangeResult, its map visited in the given order.
aggregateRangeResult(series, order) ==
    LET pairs == flattenSeries(series)
    IN  IF \E i \in 1..Len(pairs) : pairs[i].shape # "ok"
        THEN [err |-> "parse value", rows |-> <<>>]
        ELSE [ err  |-> "nil",
               rows |-> [i \in 1..Len(order) |->
                           [ts |-> timeUnix(order[i]), value |-> accOf(pairs, order[i])]] ]

\* Inserts row into rows, sorted by ts, before the first row that is later.
RECURSIVE insertRow(_, _)
insertRow(row, rows) ==
    IF Len(rows) = 0 THEN <<row>>
    ELSE IF row.ts < Head(rows).ts THEN <<row>> \o rows
    ELSE <<Head(rows)>> \o insertRow(row, Tail(rows))

\* sort.Slice(rows, ts Before ts).
RECURSIVE sortRows(_)
sortRows(rows) ==
    IF Len(rows) = 0 THEN <<>> ELSE insertRow(Head(rows), sortRows(Tail(rows)))

\* Collect returns the rows in the order of the map.
Collect_unsorted(reply, order) ==
    IF reply.status # "success" THEN [err |-> "prometheus status", Rows |-> <<>>]
    ELSE LET agg == aggregateRangeResult(reply.result, order)
         IN  IF agg.err # "nil" THEN [err |-> agg.err, Rows |-> <<>>]
             ELSE [ err  |-> "nil",
                    Rows |-> [i \in 1..Len(agg.rows) |->
                                [agg.rows[i] EXCEPT !.ts = formatRFC3339(@)]] ]

\* Collect on a reply of Prometheus.
Collect(reply, order) ==
    IF reply.status # "success" THEN [err |-> "prometheus status", Rows |-> <<>>]
    ELSE LET agg == aggregateRangeResult(reply.result, order)
         IN  IF agg.err # "nil" THEN [err |-> agg.err, Rows |-> <<>>]
             ELSE [ err  |-> "nil",
                    Rows |-> LET sorted == sortRows(agg.rows)
                             IN  [i \in 1..Len(sorted) |->
                                    [sorted[i] EXCEPT !.ts = formatRFC3339(@)]] ]

Replies ==
    [ status : {"success", "error"},
      result : [1..SeriesCount -> SeqsUpTo(SamplePairs, MaxPairs)] ]

InitCollect ==
    /\ adCall \in Replies
    /\ adDone = FALSE
    /\ adResult = NoModelCall

CallCollect ==
    /\ ~adDone
    /\ adDone' = TRUE
    /\ \E order \in mapOrders(accKeys(flattenSeries(adCall.result))) :
          adResult' = Collect(adCall, order)
    /\ UNCHANGED adCall

collectFrame ==
    UNCHANGED <<plannerVars, loopVars, scalerVars, storeVars, serviceVars,
                arMu, arFitted, arPc, arTmp, arResult, arCalls, arTrainedOk,
                baselineVars>>

InitOfCollect ==
    /\ PlannerIdle /\ LoopNotStarted /\ InitScaler /\ StoreIdle /\ ServiceIdle
    /\ ArimaIdle /\ BaselineIdle /\ InitCollect
    /\ bfCall = NoModelCall /\ bfDone = TRUE /\ bfResult = NoModelCall

NextCollect == CallCollect /\ collectFrame /\ UNCHANGED <<bfCall, bfDone, bfResult>>

SpecCollect == InitOfCollect /\ [][NextCollect]_vars

----------------------------------------------------------------------------
\* pkg/features Builder.BuildFeatures.

\* The "value" field of a raw row: absent, or a Go value of some type.
RawValues ==
    {Absent} \cup [type : {"float64"}, x : {100, 110}]
             \cup [type : {"int"}, x : {7}]
             \cup [type : {"string"}, x : {110}]

\* The "ts" field of a raw row: absent, an RFC3339 string, or another string.
RawTimestamps ==
    {Absent} \cup [type : {"string"}, valid : {TRUE}, sec : {3660}]
             \cup [type : {"string"}, valid : {FALSE}, sec : {0}]

\* toFloat64: the numeric Go types convert, everything else does not.
toFloat64(v) ==
    IF v.type \in {"float64", "float32", "int", "int64", "int32"}
    THEN [f |-> v.x, ok |-> TRUE]
    ELSE [f |-> 0, ok |-> FALSE]

\* parseTimestamp: an RFC3339 string, a number of seconds or a time.Time.
parseTimestamp(v) ==
    IF v.type = "string" THEN [sec |-> v.sec, ok |-> v.valid]
    ELSE [sec |-> v.sec, ok |-> v.type \in {"float64", "int", "int64", "time.Time"}]

\* A raw row has a value that BuildFeatures can convert.
coercible(row) == row.value # Absent /\ toFloat64(row.value).ok

\* The feature row of a raw row with a convertible value.
featuresOf(row) ==
    LET value == toFloat64(row.value).f
        ts    == IF row.ts = Absent THEN [sec |-> 0, ok |-> FALSE] ELSE parseTimestamp(row.ts)
    IN  IF ts.ok
        THEN [ value |-> value, timestamp |-> ts.sec,
               hour  |-> (ts.sec \div 3600) % 24,
               day   |-> ((ts.sec \div 86400) + 4) % 7 ]
        ELSE [ value |-> value ]

\* The loop of BuildFeatures over the rows from the i-th on.
RECURSIVE buildLoop_newestFirst(_, _)
buildLoop_newestFirst(dfRows, i) ==
    IF i > Len(dfRows) THEN <<>>
    ELSE IF ~coercible(dfRows[i]) THEN buildLoop_newestFirst(dfRows, i + 1)
    ELSE buildLoop_newestFirst(dfRows, i + 1) \o <<featuresOf(dfRows[i])>>

RECURSIVE buildLoop(_, _)
buildLoop(dfRows, i) ==
    IF i > Len(dfRows) THEN <<>>
    ELSE IF ~coercible(dfRows[i]) THEN buildLoop(dfRows, i + 1)
    ELSE <<featuresOf(dfRows[i])>> \o buildLoop(dfRows, i + 1)

\* BuildFeatures prepends each feature row.
BuildFeatures_prepends(dfRows) ==
    IF Len(dfRows) = 0 THEN [err |-> "dataframe is empty", Rows |-> <<>>]
    ELSE IF Len(buildLoop_newestFirst(dfRows, 1)) = 0
         THEN [err |-> "no valid rows with 'value' field", Rows |-> <<>>]
         ELSE [err |-> "nil", Rows |-> buildLoop_newestFirst(dfRows, 1)]

BuildFeatures(dfRows) ==
    IF Len(dfRows) = 0 THEN [err |-> "dataframe is empty", Rows |-> <<>>]
    ELSE IF Len(buildLoop(dfRows, 1)) = 0
         THEN [err |-> "no valid rows with 'value' field", Rows |-> <<>>]
         ELSE [err |-> "nil", Rows |-> buildLoop(dfRows, 1)]

InitFeatures ==
    /\ bfCall \in [Rows : SeqsUpTo([value : RawValues, ts : RawTimestamps], MaxLen)]
    /\ bfDone = FALSE
    /\ bfResult = NoModelCall

CallBuildFeatures ==
    /\ ~bfDone
    /\ bfDone' = TRUE
    /\ bfResult' = BuildFeatures(bfCall.Rows)
    /\ UNCHANGED bfCall

InitOfFeatures ==
    /\ PlannerIdle /\ LoopNotStarted /\ InitScaler /\ StoreIdle /\ ServiceIdle
    /\ ArimaIdle /\ BaselineIdle /\ InitFeatures
    /\ adCall = NoModelCall /\ adDone = TRUE /\ adResult = NoModelCall

NextFeatures == CallBuildFeatures /\ collectFrame /\ UNCHANGED <<adCall, adDone, adResult>>

SpecFeatures == InitOfFeatures /\ [][NextFeatures]_vars

\* The loop alone.
SpecLoop == Init /\ [][LoopNext]_vars

\* The Tick in flight executes its current stage: every stage of Tick logs
\* its own name, and nothing else does.
TickStage ==
    /\ tickPc # "idle"
    /\ tickTrace' = Append(tickTrace, tickPc)

\* The goroutine of Run keeps running (it makes its first call of Tick and
\* executes the stages of a Tick in flight), and its select, which picks
\* among its ready cases at random, does not pass over the Done case of a
\* cancelled context forever.
FairRunSpec ==
    /\ Init
    /\ [][LoopNext]_vars
    /\ WF_vars(RunFirstTick)
    /\ WF_tickTrace(TickStage)
    /\ SF_vars(RunDoneCase)

FairLoopSpec ==
    /\ Init
    /\ [][LoopNext]_vars
    /\ WF_vars(AdvanceTime)
    /\ WF_vars(RunTickerCase)

----------------------------------------------------------------------------
\* cmd/forecaster main: start-up of the loop and the server, and shutdown.

\* HTTP requests the server is given during a run.
MaxHandlers == 1

\* httpServer.Stop(10 * time.Second)
ShutdownTimeout == 10 * TicksPerSecond

mainFrame ==
    UNCHANGED <<cfg, now, nextFire, tickerC, runPc, tickPc, tickValues, tickDesired,
                tickErr, prevTickErr, currentReplicas, trained, snapshots, tickTrace,
                ticksInFlight, snapAtTickStart, replicasAtTickStart, plannerVars,
                scalerVars, storeVars, httpResp, metricsReq, activeResp, modelVars>>

\* The server accepts a request and its handler starts.
HandlerBegin ==
    /\ mainPc = "running"
    /\ handlersInFlight + handlersDone < MaxHandlers
    /\ handlersInFlight' = handlersInFlight + 1
    /\ UNCHANGED <<cancelled, mainPc, shutdownAt, handlersDone>>
    /\ mainFrame

\* A handler returns.
HandlerEnd ==
    /\ mainPc # "exited"
    /\ handlersInFlight > 0
    /\ handlersInFlight' = handlersInFlight - 1
    /\ handlersDone' = handlersDone + 1
    /\ UNCHANGED <<cancelled, mainPc, shutdownAt>>
    /\ mainFrame

\* main leaves its select on a signal or a server failure, cancels the loop
\* context and calls httpServer.Stop.
MainShutdown ==
    /\ mainPc = "running"
    /\ mainPc' = "stopping"
    /\ shutdownAt' = now
    /\ cancelled' = TRUE
    /\ UNCHANGED <<handlersInFlight, handlersDone>>
    /\ mainFrame

\* Server.Stop(timeout) returns when no handler is in flight or the timeout
\* has passed since it was called.
StopReturns(timeout) ==
    \/ handlersInFlight = 0
    \/ now - shutdownAt >= timeout

\* Stop has returned and main returns (or calls os.Exit): the process ends
\* with whatever its goroutines were doing.
MainExit ==
    /\ mainPc = "stopping"
    /\ StopReturns(ShutdownTimeout)
    /\ mainPc' = "exited"
    /\ UNCHANGED <<cancelled, shutdownAt, handlersInFlight, handlersDone>>
    /\ mainFrame

InitShutdown ==
    /\ PlannerIdle
    /\ \E config \in ServeConfigs : InitLoopWith(config)
    /\ InitScaler /\ StoreIdle /\ ServiceIdle /\ ModelIdle

\* The goroutines of the process run until it exits.
NextShutdown ==
    \/ mainPc # "exited" /\ RunNext
    \/ HandlerBegin
    \/ HandlerEnd
    \/ MainShutdown
    \/ MainExit

SpecShutdown == InitShutdown /\ [][NextShutdown]_vars

----------------------------------------------------------------------------
\* Properties of the forecaster loop and of the scaler.

TickFailures == {"collect", "build features", "predict", "store"}

\* C3 as stated: a missing or stale snapshot, a failed fetch and a
\* non-positive stepSeconds all make GetMetrics answer defaultMin, never an
\* error.
C3_Original ==
    metricsResp.case \in {"missing", "stale", "fetch error", "invalid step"} =>
        metricsResp.resp = [kind |-> "value", value |-> DefaultMin]

\* C6: at most one Tick is in progress; Run is at its select only when none is.
C6_AtMostOneTick ==
    /\ ticksInFlight <= 1
    /\ (tickPc # "idle") <=> (ticksInFlight = 1)
    /\ runPc = "select" => ticksInFlight = 0

\* The ticker has fired while a Tick that follows an earlier one is running.
C6_Witness ==
    /\ ticksInFlight = 1
    /\ tickPc = "storeSnapshot"
    /\ prevTickErr \in TickFailures \cup {"nil"}
    /\ tickerC

\* C7: a Tick that failed at any stage has left the stored snapshot of the
\* workload as it was when the Tick began, still readable.
C7_FailedTickKeepsSnapshot ==
    tickErr \in TickFailures =>
        /\ snapshots[Workload] = snapAtTickStart
        /\ snapAtTickStart # NoSnapshot =>
               StoreGetLatest(snapshots, Workload) =
                   [found |-> TRUE, snapshot |-> snapAtTickStart]

\* A Tick failed at the store put while an earlier snapshot was stored.
C7_Witness ==
    /\ tickErr = "store"
    /\ snapAtTickStart # NoSnapshot
    /\ StoreGetLatest(snapshots, Workload).found
    /\ now > snapAtTickStart.GeneratedAt

\* C8: after a failed Tick, unless the context is cancelled, another Tick
\* starts (within the modelled time: the ticker has fired or will fire).
C8_LoopSurvivesFailure ==
    (tickErr \in TickFailures /\ ~cancelled /\ (tickerC \/ nextFire <= MaxTime))
        ~> (tickErr = "running" \/ cancelled)

\* A Tick is running that was started after a failed one.
C8_Witness ==
    /\ prevTickErr \in TickFailures
    /\ tickErr = "running"
    /\ ~cancelled

\* C9 as stated: currentReplicas starts at policy.minReplicas, a failed Tick
\* leaves it as it was, a successful one sets it to the stored desired[0].
C9_Original ==
    /\ tickErr = "none" => currentReplicas = cfg.policy.MinReplicas
    /\ tickErr \in TickFailures => currentReplicas = replicasAtTickStart
    /\ tickErr = "nil" => currentReplicas = snapshots[Workload].DesiredReplicas[1]

\* C10 as stated: with the ARIMA model, a Tick that invokes predict has
\* invoked train before it.
C10_Original ==
    cfg.model = "arima" =>
        \A i \in 1..Len(tickTrace) :
            tickTrace[i] = "predict" => \E j \in 1..(i - 1) : tickTrace[j] = "train"

\* C11: a 200 response of /forecast/current carries X-Kedastral-Stale: true
\* exactly when the snapshot is older than staleAfter; at exactly staleAfter it
\* does not.
C11_StaleHeaderIffOlder ==
    (httpResp # NoRequest /\ httpResp.reply.status = 200) =>
        (httpResp.reply.stale <=>
            httpResp.at - httpResp.entry.GeneratedAt > StaleAfter)

\* A snapshot aged exactly staleAfter was served without the stale header.
C11_Witness ==
    /\ httpResp # NoRequest
    /\ httpResp.reply.status = 200
    /\ httpResp.at - httpResp.entry.GeneratedAt = StaleAfter
    /\ ~httpResp.reply.stale

\* The status /forecast/current owes a request.
statusOwed(req) ==
    IF req.workload = "" THEN 400
    ELSE IF req.storeFails THEN 500
    ELSE IF req.entry = NoSnapshot THEN 404
    ELSE 200

\* C12: /forecast/current answers 400 to an empty workload, 500 to a store
\* error, 404 when the workload has no snapshot, and otherwise 200 with the
\* snapshot as body, stale or not.
C12_StatusCodes ==
    httpResp # NoRequest =>
        /\ httpResp.reply.status = statusOwed(httpResp)
        /\ httpResp.reply.status = 200 =>
              \A f \in DOMAIN httpResp.entry \ {"GeneratedAt"} :
                  httpResp.reply.body[f] = httpResp.entry[f]

\* A stale snapshot was served with status 200 and its body.
C12_Witness ==
    /\ httpResp # NoRequest
    /\ httpResp.reply.status = 200
    /\ httpResp.reply.stale
    /\ httpResp.reply.body.DesiredReplicas = httpResp.entry.DesiredReplicas

\* What the scaler's client receives of a stored snapshot.
received(entry) == [entry EXCEPT !.GeneratedAt = formatRFC3339(@)]

\* The request reached the forecaster and the forecaster had a snapshot.
fetched(req) == ~req.requestFails /\ req.entry # NoSnapshot

\* The received snapshot is stale by the scaler's staleAfter.
staleForScaler(req) == req.at - received(req.entry).GeneratedAt > ScalerStaleAfter

\* The lead-time index of the scaler into the plan of the snapshot.
leadTimeIndex(req) ==
    MinOf(req.leadTime \div req.entry.StepSeconds, Len(req.entry.DesiredReplicas) - 1)

C17_GeneratedAtMonotone ==
    [][(snapshots[Workload] # NoSnapshot /\ snapshots'[Workload] # NoSnapshot) =>
          snapshots'[Workload].GeneratedAt >= snapshots[Workload].GeneratedAt]_vars

\* A Tick has replaced a stored snapshot by a later one.
C17_Witness ==
    /\ tickErr = "nil"
    /\ snapAtTickStart # NoSnapshot
    /\ snapshots[Workload] # snapAtTickStart
    /\ snapshots[Workload].GeneratedAt > snapAtTickStart.GeneratedAt

\* C18: the first step of Run starts a Tick without touching the ticker, and
\* every other Tick starts by taking a tick the ticker has delivered.
C18_TickStarts ==
    [][/\ (runPc = "start" /\ runPc' # "start") =>
             (ticksInFlight' = ticksInFlight + 1 /\ tickerC' = tickerC)
       /\ (runPc # "start" /\ ticksInFlight' > ticksInFlight) =>
             (tickerC /\ ~tickerC')]_vars

\* A Tick started from the ticker after the first Tick had succeeded.
C18_Witness ==
    /\ tickPc = "collect"
    /\ prevTickErr = "nil"
    /\ ~tickerC
    /\ now >= Interval

\* C19: once the loop context is cancelled, Run returns.
C19_CancelStopsRun == cancelled ~> (runPc = "returned" /\ ticksInFlight = 0)

\* Run has returned after the cancellation, having run more than one Tick.
C19_Witness ==
    /\ cancelled
    /\ runPc = "returned"
    /\ ticksInFlight = 0
    /\ prevTickErr # "none"

\* C20: when the forecaster process has exited, no Tick and no HTTP handler
\* is in flight, or the shutdown timeout has passed since shutdown began.
C20_Original ==
    mainPc = "exited" =>
        \/ ticksInFlight = 0 /\ handlersInFlight = 0
        \/ now - shutdownAt >= ShutdownTimeout

\* C21: an entry leaves the store without a Put only when its generatedAt
\* + TTL < now, and a GetLatest of a workload whose entry was evicted (and
\* not put again) returns not found.
C21_EvictsOnlyExpired ==
    /\ [](\A r \in Readers :
            (stResult[r] # NoResult /\ stResult[r].evicted) => stResult[r].got = NoSnapshot)
    /\ [][\A w \in Workloads :
            (snapshots[w] # NoSnapshot /\ snapshots'[w] = NoSnapshot) =>
                snapshots[w].GeneratedAt + StoreTTL < now]_vars

\* A GetLatest found nothing for a workload whose entry had been put and
\* then evicted.
C21_Witness ==
    \E r \in Readers :
        /\ stResult[r] # NoResult
        /\ stResult[r].evicted
        /\ stResult[r].lastPut # NoSnapshot
        /\ stResult[r].lastPut.GeneratedAt + StoreTTL < now
        /\ stResult[r].got = NoSnapshot

C23_PredictNeedsTrain ==
    \A p \in Predictors :
        arResult[p] # NoModelCall =>
            /\ arResult[p].err = "nil" => arResult[p].trainedOk > 0
            /\ arResult[p].trainedOk = 0 => arResult[p].err = "not trained"

\* A Predict failed with "not trained" after the only Train so far had failed.
C23_Witness ==
    \E p \in Predictors, t \in Trainers :
        /\ arResult[p] # NoModelCall
        /\ arResult[p].err = "not trained"
        /\ arResult[t] # NoModelCall
        /\ arResult[t].err = "numerical instability"
        /\ arTrainedOk = 0

\* C24: a Train that returns an error leaves the fitted state and the trained
\* flag as they were when it was called.
C24_FailedTrainPreserves ==
    \A t \in Trainers :
        (arResult[t] # NoModelCall /\ arResult[t].err # "nil") =>
            arResult[t].after = arResult[t].before

\* A Train failed in the estimation on a model an earlier Train had fitted.
C24_Witness ==
    \E t \in Trainers :
        /\ arResult[t] # NoModelCall
        /\ arResult[t].err = "numerical instability"
        /\ arResult[t].before.trained
        /\ arResult[t].before.fitted = [ar |-> 1, ma |-> 1]
        /\ trained

\* C25: a Predict that succeeds has computed from the AR part and the MA
\* part that one and the same Train has stored.
C25_PredictReadsOneFit ==
    \A p \in Predictors :
        (arResult[p] # NoModelCall /\ arResult[p].err = "nil") =>
            /\ arResult[p].used.ar = arResult[p].used.ma
            /\ arResult[p].used.ar >= 1

\* A Predict overlapped by a Train returned the forecast of the earlier fit
\* after that Train had replaced it, while another Predict was under way.
C25_Witness ==
    \E p \in Predictors :
        /\ arResult[p] # NoModelCall
        /\ arResult[p].err = "nil"
        /\ arResult[p].overlap
        /\ arResult[p].used = [ar |-> 1, ma |-> 1]
        /\ arFitted = [ar |-> 2, ma |-> 2]

\* The window of step i as the planner contract states it, with the lead
\* index i0 = ceil(leadTimeSec / stepSec) of a non-negative lead time.
statedWindow(i) ==
    LET p      == sanitizePolicy(plCall.policy)
        n      == Len(plCall.forecast)
        i0     == CeilDiv(p.LeadTimeSeconds, sanitizeStepSec(plCall.stepSec))
        jStart == MinOf(i + i0, n - 1)
    IN  jStart .. MinOf(jStart + p.PrewarmWindowSteps, n - 1)

\* x is the maximum of adj over the indices W.
isMaxOfAdj(x, W) ==
    LET p == sanitizePolicy(plCall.policy)
        a(j) == adjOf(plCall.forecast[j + 1], p)
    IN  /\ W # {}
        /\ \A j \in W : a(j)[1] * x[2] <= x[1] * a(j)[2]
        /\ \E j \in W : a(j)[1] * x[2] = x[1] * a(j)[2]

\* C26: in every step i of a call of ToReplicas that returns, for a lead time
\* >= 0, the need is the maximum of adj over jStart..jEnd with
\* jStart = min(i + i0, N-1) and jEnd = min(jStart + prewarmWindowSteps, N-1).
C26_Original ==
    (PlannerCalled /\ ~plPanic /\ plCall.policy.LeadTimeSeconds >= 0) =>
        \A i \in 1..Len(plSteps) : isMaxOfAdj(plSteps[i].need, statedWindow(i - 1))

\* C28: a call of ToReplicas returns, it does not end in a run-time panic.
C28_Original == PlannerCalled => ~plPanic

\* C27: a step of ToReplicas whose prevOut is 0 emits at most
\* ceil(upMaxFactorPerStep) replicas.
C27_ColdStartCap ==
    (PlannerCalled /\ ~plPanic) =>
        \A i \in 1..Len(plSteps) :
            plSteps[i].prevOut = 0 => plResult[i] <= CeilDiv(EffUp[1], EffUp[2])

\* With no upper bound configured, a step starting from 0 replicas was held
\* at the cap although its demand was higher.
C27_Witness ==
    /\ PlannerCalled
    /\ plCall.policy.MaxReplicas = 0
    /\ \E i \in 1..Len(plSteps) :
          /\ plSteps[i].prevOut = 0
          /\ plResult[i] = CeilDiv(EffUp[1], EffUp[2])
          /\ FloorDiv(plSteps[i].need[1], plSteps[i].need[2]) > plResult[i]

C30_Original ==
    (bpDone /\ bpCall # NoModelCall /\ bpResult.err = "nil") =>
        /\ Len(bpResult.Values) = bpCall.m.horizon \div bpCall.m.stepSec
        /\ \A i \in 1..Len(bpResult.Values) :
              /\ IsFinite(bpResult.Values[i])
              /\ bpResult.Values[i].num >= 0

\* The "value" series of the call under examination is finite, non-decreasing
\* and of length >= 2.
nonDecreasingSeries ==
    LET values == valuesOf(bpCall.rows)
    IN  /\ Len(values) >= 2
        /\ \A i \in 1..Len(values) : IsFinite(values[i])
        /\ \A i \in 1..(Len(values) - 1) : ~flt(values[i + 1], values[i])

\* C31: for a non-decreasing value series of length >= 2 every prediction p of
\* the baseline model satisfies last <= p <= 1.5 * last.
C31_Original ==
    (bpDone /\ bpCall # NoModelCall /\ bpResult.err = "nil" /\ nonDecreasingSeries) =>
        LET values == valuesOf(bpCall.rows)
            last   == values[Len(values)]
        IN  \A i \in 1..Len(bpResult.Values) :
               /\ ~flt(bpResult.Values[i], last)
               /\ ~flt(fscale(3, 2, last), bpResult.Values[i])

\* C32: the rows of a DataFrame returned by a successful Collect are in
\* strictly ascending order of ts: sorted, no two rows with the same timestamp.
C32_StrictlyAscending ==
    (adDone /\ adCall # NoModelCall /\ adResult.err = "nil") =>
        \A i \in 1..(Len(adResult.Rows) - 1) :
            adResult.Rows[i].ts < adResult.Rows[i + 1].ts

\* C32 witness: a successful Collect returned several rows from series that
\* were out of order and shared a second.
C32_Witness ==
    /\ adDone /\ adCall # NoModelCall /\ adResult.err = "nil"
    /\ Len(adResult.Rows) >= 2
    /\ \E k \in 1..SeriesCount :
          /\ Len(adCall.result[k]) >= 2
          /\ adCall.result[k][1].ts > adCall.result[k][2].ts
    /\ Len(flattenSeries(adCall.result)) > Len(adResult.Rows)

\* The values of the raw rows whose value converts, in the order of the rows.
RECURSIVE coercibleValues(_)
coercibleValues(dfRows) ==
    IF Len(dfRows) = 0 THEN <<>>
    ELSE IF Head(dfRows).value # Absent
            /\ Head(dfRows).value.type \in {"float64", "float32", "int", "int64", "int32"}
         THEN <<Head(dfRows).value.x>> \o coercibleValues(Tail(dfRows))
         ELSE coercibleValues(Tail(dfRows))

C34_Original ==
    (PlannerCalled /\ ~plPanic /\ Len(plResult) >= 1 /\ plCall.prev > 0) =>
        /\ plResult[1] <= CeilDiv(plCall.prev * EffUp[1], EffUp[2])
        /\ plResult[1] >= FloorDiv(plCall.prev * (100 - EffDown), 100)

\* Two successful ticks in a row have each stored a snapshot.
twoTicksStored ==
    /\ tickPc = "idle" /\ tickErr = "nil" /\ prevTickErr = "nil"
    /\ snapAtTickStart # NoSnapshot
    /\ snapshots[Workload] # NoSnapshot

\* The value a scaler with the given lead time serves from a snapshot.
servedFrom(snapshot, leadTime) == selectDesired(snapshot, leadTime)

\* C35: across two consecutive successful ticks the value the scaler serves
\* (desiredReplicas at its lead index) moves no further from the value served
\* before than the planner's change clamps allow.
C35_Original ==
    twoTicksStored =>
        LET before == servedFrom(snapAtTickStart, ScalerLeadTimeSec)
            after  == servedFrom(snapshots[Workload], ScalerLeadTimeSec)
            up     == cfg.policy.UpMaxFactorPerStep
            down   == cfg.policy.DownMaxPercentPerStep
        IN  /\ after <= CeilDiv(MaxOf(before, 1) * up[1], up[2])
            /\ after >= FloorDiv(before * (100 - down), 100)

\* C36: once the loop context is cancelled, Run starts no further Tick after
\* its first one, even with an interval tick pending at that moment.
C36_Original ==
    [][(cancelled /\ runPc # "start") => ticksInFlight' <= ticksInFlight]_vars

\* The call under examination has a constant forecast and a policy with
\* upMaxFactorPerStep > 1 and downMaxPercentPerStep > 0.
constantForecastCall ==
    /\ PlannerCalled /\ ~plPanic
    /\ Len(plCall.forecast) >= 1
    /\ \A i \in 1..Len(plCall.forecast) : plCall.forecast[i] = plCall.forecast[1]
    /\ plCall.policy.UpMaxFactorPerStep[1] > plCall.policy.UpMaxFactorPerStep[2]
    /\ plCall.policy.DownMaxPercentPerStep > 0

\* The bounded target of a constant forecast: the rounded demand clamped to
\* [minReplicas, maxReplicas].
boundedTarget ==
    LET p == sanitizePolicy(plCall.policy)
    IN  clampBounds(roundPods(adjOf(plCall.forecast[1], p), p.RoundingMode),
                    p.MinReplicas, p.MaxReplicas)

distanceTo(x, y) == IF x >= y THEN x - y ELSE y - x

\* C37: with upMaxFactorPerStep > 1 and downMaxPercentPerStep > 0 the outputs
\* for a constant forecast reach the bounded target after finitely many steps
\* and stay at it: every step away from the target ends strictly closer to it
\* than it began, and a step that begins at the target ends at it.
C37_ReachesTargetAndStays ==
    constantForecastCall =>
        \A i \in 1..Len(plResult) :
            IF plSteps[i].prevOut = boundedTarget
            THEN plResult[i] = boundedTarget
            ELSE distanceTo(plResult[i], boundedTarget)
                    < distanceTo(plSteps[i].prevOut, boundedTarget)

\* C37 witness: a call on a constant forecast started away from its target,
\* reached it after more than one step and stayed at it.
C37_Witness ==
    /\ constantForecastCall
    /\ Len(plResult) = 3
    /\ plSteps[1].prevOut # boundedTarget
    /\ plResult[1] # boundedTarget
    /\ plResult[2] = boundedTarget
    /\ plResult[3] = boundedTarget

\* C38: with staleAfter = 2 x interval, while every tick succeeds and
\* completes within one interval, no answer of /forecast/current for the
\* workload given once a snapshot is stored is marked stale.
C38_NeverStaleOnTime ==
    (httpResp # NoRequest /\ httpResp.workload = Workload /\ httpResp.reply.status = 200) =>
        ~httpResp.reply.stale

\* C38 witness: a request was answered from a snapshot exactly staleAfter
\* old, the next Tick being about to replace it.
C38_Witness ==
    /\ httpResp # NoRequest /\ httpResp.workload = Workload
    /\ httpResp.reply.status = 200
    /\ httpResp.at - httpResp.entry.GeneratedAt = StaleAfter
    /\ tickPc = "storeSnapshot"
    /\ ~httpResp.reply.stale

\* What GetMetrics answers to the request an IsActive call was given.
metricsFor(req) ==
    GetMetrics(GetSnapshot(req.workload, req.requestFails,
                           handleGetSnapshot(snapshots, req.workload, FALSE, req.at)),
               req.leadTime, req.at)

\* The request was answered from a fresh snapshot.
freshFor(req) ==
    /\ fetched(req)
    /\ ~staleForScaler(req)
    /\ req.entry.StepSeconds > 0

outputsOrdered ==
    \A i \in 1..Len(plResult) : plResult[i] <= plOther.result[i]

====
